---------------------------- MODULE Spec2Model ----------------------------
(***************************************************************************)
(* SymINDy: symbolic regression of dynamical systems.  A genetic program   *)
(* (DEAP) evolves individuals made of ntrees expression trees; the fitness *)
(* evaluator (evalSymbReg) turns an individual into a feature library,     *)
(* fits a sparse model (pysindy) on it and scores it; the driver           *)
(* (my_eaSimple) runs the generational loop and fit() retrieves the final  *)
(* model of the hall-of-fame individual.                                   *)
(*                                                                         *)
(* Modelled from src/symindy/symindy/symindy.py (the current variant) and  *)
(* src/src/SymINDy/main_tmp.py (the earlier variant of the evaluator).     *)
(*                                                                         *)
(* Representation choices.                                                 *)
(*  - An expression tree is what DEAP's gp.PrimitiveTree is: the list of   *)
(*    its nodes in prefix order.  The code of this repository reads only   *)
(*    a tree's length (len), its height and its equality with another      *)
(*    tree, so a node is modelled by its arity alone.                      *)
(*  - A data array (x_train, x_dot_train, time_rec_obs) is the sequence of *)
(*    its sample indices: slicing, order and contiguity are what the code  *)
(*    decides; the numbers in a sample are read only by the fitting engine.*)
(*  - The fitting engine (pysindy) and the tree operators (DEAP gp.cx...,  *)
(*    gp.mut...) are libraries outside this repository: their results are  *)
(*    nondeterministic choices over the values their interfaces allow.     *)
(*  - A fitness is a rational number [num, den]: the penalty               *)
(*    n_nodes/max_nnodes is exact in this representation.                  *)
(***************************************************************************)
EXTENDS Integers, Sequences, FiniteSets, TLC

(***************************************************************************)
(* Bounds of the model.                                                    *)
(***************************************************************************)
\* largest number of nodes of a tree of the evaluator's individuals
EvalMaxNodes == 2
\* largest number of time samples of x_train handed to one evalSymbReg call
EvalMaxSamples == 10
\* largest base score the fitting engine's score returns (scores 0..MaxScore)
MaxScore == 1
\* largest ntrees and largest number of state dimensions of an evaluator call
EvalMaxNTrees == 2
EvalMaxDims == 2
\* largest max_depth handed to an evaluator call
EvalMaxDepth == 2
\* the driver's runs: n_individuals, ntrees, the largest ngen, the largest
\* max_depth a direct caller hands to configure_DEAP, the number of samples
\* of a valid x_train
NIndividuals == 2
NTrees == 2
MaxNgen == 1
DriverMaxDepth == 1
DriverSamples == 5
\* the tallest tree of the first population in the runs checked for
\* termination
FairMaxHeight == 0
PairIndividuals == 4
VaryMaxDepth == 3
PsetMaxDims == 4
PsetMaxNc == 3
SeedObjects == 2
MaxSeed == 1
MaxFits == 2
\* largest number of samples of the arrays handed to score and of the time
\* points handed to predict
ApiMaxSamples == 2

(***************************************************************************)
(* Program constants.                                                      *)
(***************************************************************************)
\* validate_input: x_train.shape[0] < 3 raises
MinTimepoints == 3
\* gp.staticLimit(key=operator.attrgetter("height"), max_value=2)
StaticLimitMaxValue == 2
\* configure_DEAP(..., max_depth=2, ...): the default maximum tree height
DefaultMaxDepth == 2
\* SymINDy.__init__(..., sparsity="n_nodes", ...)
DefaultSparsity == "n_nodes"
\* tools.HallOfFame(1)
HofMaxSize == 1
\* creator.create("FitnessMax", base.Fitness, weights=(1.0,))
FitnessWeight == 1
\* main_tmp.py: creator.create("FitnessMin", base.Fitness, weights=(-1.0,))
FitnessWeight_tmp == -1
\* main_tmp.py: pset.renameArguments(ARG2="time")
TimeSlot_tmp == 2

(***************************************************************************)
(* Small arithmetic.                                                       *)
(***************************************************************************)
RECURSIVE Pow2(_)
Pow2(n) == IF n = 0 THEN 1 ELSE 2 * Pow2(n - 1)

RECURSIVE SumSeq(_)
SumSeq(s) == IF s = <<>> THEN 0 ELSE Head(s) + SumSeq(Tail(s))

Max2(a, b) == IF a >= b THEN a ELSE b

\* 1..n as a sequence (the sample indices of an array of n samples)
Iota(n) == [i \in 1..n |-> i]

(***************************************************************************)
(* Rational numbers (fitness values).                                      *)
(***************************************************************************)
Rat(n, d) == [num |-> n, den |-> d]
RatSub(a, b) == Rat(a.num * b.den - b.num * a.den, a.den * b.den)
RatNeg(a) == Rat(0 - a.num, a.den)
RatLess(a, b) == a.num * b.den < b.num * a.den
RatLeq(a, b) == a.num * b.den <= b.num * a.den
RatEq(a, b) == a.num * b.den = b.num * a.den

(***************************************************************************)
(* Expression trees: gp.PrimitiveTree, a list of nodes in prefix order.    *)
(***************************************************************************)
\* arities of the primitive set's functions (mul, add: 2; sin, cos, exp: 1)
Arities == {1, 2}

\* s is the prefix list of exactly one tree: every node but the root fills
\* an open argument, and no argument is left open at the end
RECURSIVE OpenArgs(_, _)
OpenArgs(s, open) ==
    IF s = <<>> THEN open
    ELSE IF open = 0 THEN -1
    ELSE OpenArgs(Tail(s), open - 1 + Head(s))

IsTree(s) == Len(s) >= 1 /\ OpenArgs(s, 1) = 0

\* the trees of at most maxNodes nodes over functions of the given arities
TreesOver(arities, maxNodes) ==
    { s \in UNION { [1..n -> arities \cup {0}] : n \in 1..maxNodes } : IsTree(s) }

TreesUpTo(maxNodes) == TreesOver(Arities, maxNodes)

\* gp.PrimitiveTree.height: the depth of the deepest node, computed with a
\* stack of pending depths as DEAP does
RECURSIVE HeightFrom(_, _, _)
HeightFrom(s, stack, maxDepth) ==
    IF s = <<>> THEN maxDepth
    ELSE LET depth == stack[Len(stack)]
             rest  == SubSeq(stack, 1, Len(stack) - 1)
         IN HeightFrom(Tail(s),
                       rest \o [i \in 1..Head(s) |-> depth + 1],
                       Max2(maxDepth, depth))

Height(tree) == HeightFrom(tree, <<0>>, 0)

(***************************************************************************)
(* DEAP's tree operators, on prefix lists.  Each is the set of the results *)
(* its random choices can give.  They work in place in DEAP; the results   *)
(* here are the lists after the call.                                      *)
(***************************************************************************)
\* PrimitiveTree.searchSubtree(begin): the last index of the subtree whose
\* root is at index begin
RECURSIVE SubtreeEndFrom(_, _, _)
SubtreeEndFrom(s, j, total) ==
    LET t == total - 1 + s[j]
    IN IF t = 0 THEN j ELSE SubtreeEndFrom(s, j + 1, t)

searchSubtree(s, begin) == SubtreeEndFrom(s, begin, 1)

Subtree(s, begin) == SubSeq(s, begin, searchSubtree(s, begin))

\* individual[searchSubtree(begin)] = new
ReplaceSubtree(s, begin, new) ==
    SubSeq(s, 1, begin - 1) \o new \o SubSeq(s, searchSubtree(s, begin) + 1, Len(s))

\* gp.cxOnePoint: swap the subtrees at one node of each tree, never the root
cxOnePoint(ind1, ind2) ==
    IF Len(ind1) < 2 \/ Len(ind2) < 2 THEN { <<ind1, ind2>> }
    ELSE { << ReplaceSubtree(ind1, i1, Subtree(ind2, i2)),
              ReplaceSubtree(ind2, i2, Subtree(ind1, i1)) >> :
             i1 \in 2..Len(ind1), i2 \in 2..Len(ind2) }

\* gp.cxOnePointLeafBiased: the same swap, each tree's node drawn among its
\* terminals or among its functions; no swap when one of the two has none
cxOnePointLeafBiased(ind1, ind2) ==
    IF Len(ind1) < 2 \/ Len(ind2) < 2 THEN { <<ind1, ind2>> }
    ELSE UNION { LET idx1 == { i \in 2..Len(ind1) : (ind1[i] = 0) = leaf1 }
                     idx2 == { i \in 2..Len(ind2) : (ind2[i] = 0) = leaf2 }
                 IN IF idx1 = {} \/ idx2 = {} THEN { <<ind1, ind2>> }
                    ELSE { << ReplaceSubtree(ind1, i1, Subtree(ind2, i2)),
                              ReplaceSubtree(ind2, i2, Subtree(ind1, i1)) >> :
                             i1 \in idx1, i2 \in idx2 }
               : leaf1 \in BOOLEAN, leaf2 \in BOOLEAN }

\* gp.mutInsert: a new function node above one node (the root included), the
\* old subtree as one of its arguments and new terminals as the others
mutInsert(individual, arities) ==
    UNION { { ReplaceSubtree(individual, index,
                             <<a>> \o [k \in 1..(position - 1) |-> 0]
                                   \o Subtree(individual, index)
                                   \o [k \in 1..(a - position) |-> 0]) :
                index \in 1..Len(individual), position \in 1..a }
            : a \in arities }

\* the first index of the k-th argument of the node whose first argument
\* starts at rindex
RECURSIVE ArgStart(_, _, _)
ArgStart(s, rindex, k) ==
    IF k = 1 THEN rindex ELSE ArgStart(s, searchSubtree(s, rindex) + 1, k - 1)

\* gp.mutShrink: a function node other than the root is replaced by one of
\* its arguments; trees of fewer than 3 nodes or of height <= 1 are left alone
mutShrink(individual) ==
    IF Len(individual) < 3 \/ Height(individual) <= 1 THEN { individual }
    ELSE LET iprims == { i \in 2..Len(individual) : individual[i] > 0 }
         IN IF iprims = {} THEN { individual }
            ELSE UNION { { ReplaceSubtree(individual, index,
                              Subtree(individual, ArgStart(individual, index + 1, arg))) :
                             arg \in 1..individual[index] }
                         : index \in iprims }

\* gp.mutNodeReplacement: one node is replaced by a node of the same arity
\* and argument types, so the prefix list of arities is the one it was
mutNodeReplacement(individual) == { individual }

\* _random_mating_operator: roll < 0.5 gives gp.cxOnePoint, any other roll
\* (roll < 1.5) gp.cxOnePointLeafBiased
random_mating_operator(ind1, ind2) ==
    cxOnePoint(ind1, ind2) \cup cxOnePointLeafBiased(ind1, ind2)

\* _random_mutation_operator: roll < 0.5 gp.mutInsert, roll < 0.66
\* gp.mutShrink, any other roll gp.mutNodeReplacement
random_mutation_operator(individual, arities) ==
    mutInsert(individual, arities) \cup mutShrink(individual)
        \cup mutNodeReplacement(individual)

\* gp.staticLimit(key=height, max_value) around mate: a child higher than
\* max_value is replaced by random.choice of the copies of the two parents
\* taken before the call.  same: both children were replaced by the same
\* copy, so the two results are one object.
staticLimit_mate(ind1, ind2, max_value) ==
    UNION { LET over1 == Height(c[1]) > max_value
                over2 == Height(c[2]) > max_value
                keep  == <<ind1, ind2>>
            IN { [t1 |-> IF over1 THEN keep[k1] ELSE c[1],
                  t2 |-> IF over2 THEN keep[k2] ELSE c[2],
                  same |-> over1 /\ over2 /\ k1 = k2] :
                   k1 \in IF over1 THEN {1, 2} ELSE {1},
                   k2 \in IF over2 THEN {1, 2} ELSE {1} }
            : c \in random_mating_operator(ind1, ind2) }

\* gp.staticLimit around mutate.  made: the tree the operator built in place
\* (what any other holder of the same object sees); kept: the tree returned,
\* the copy taken before the call when made is higher than max_value
staticLimit_mutate(individual, arities, max_value) ==
    { [made |-> m,
       kept |-> IF Height(m) > max_value THEN individual ELSE m,
       rejected |-> Height(m) > max_value] :
        m \in random_mutation_operator(individual, arities) }

(***************************************************************************)
(* Optional arrays.  kind: "none" (None), "array", or "float" (a scalar    *)
(* time step, which time_rec_obs may be).                                  *)
(***************************************************************************)
NoneArr == [kind |-> "none", val |-> <<>>]
Arr(s) == [kind |-> "array", val |-> s]
FloatArr == [kind |-> "float", val |-> <<>>]

NoRatio == [some |-> FALSE, num |-> 0, den |-> 1]
Ratio(n, d) == [some |-> TRUE, num |-> n, den |-> d]

\* int(ratio*len(x)) for a non-negative ratio: truncation is the floor
SplitIndex(n, ratio) == (ratio.num * n) \div ratio.den

\* variant: the second part starts one sample early
split_overlap(x, ratio) ==
    IF x.kind = "none" THEN <<NoneArr, NoneArr>>
    ELSE LET k == SplitIndex(Len(x.val), ratio)
         IN << Arr(SubSeq(x.val, 1, k)),
               Arr(SubSeq(x.val, IF k = 0 THEN 1 ELSE k, Len(x.val))) >>

\* split = lambda x, ratio: (x[:int(ratio*len(x))], x[int(ratio*len(x)):])
\*         if x is not None else (None, None)
split(x, ratio) ==
    IF x.kind = "none" THEN <<NoneArr, NoneArr>>
    ELSE LET k == SplitIndex(Len(x.val), ratio)
         IN << Arr(SubSeq(x.val, 1, k)), Arr(SubSeq(x.val, k + 1, Len(x.val))) >>

\* len(x) of a float raises TypeError inside split
splitRaises(x) == x.kind = "float"


(***************************************************************************)
(* The fitting engine's interface (pysindy.SINDy), as evalSymbReg uses it. *)
(***************************************************************************)
\* the arguments of one model.fit(x, t=..., x_dot=...) or model.score(...) call
EngineCall(x, t, x_dot) == [x |-> x, t |-> t, x_dot |-> x_dot]

\* a model object: whether fit has completed on it, the data it was fitted on,
\* and its coefficient matrix (one row per output dimension, one column per
\* library feature; an entry is 0 or 1, 1 standing for any non-zero value)
NoModel == [fitted |-> FALSE, data |-> EngineCall(NoneArr, NoneArr, NoneArr),
            coefs |-> <<>>]
FittedModel(call, coefs) == [fitted |-> TRUE, data |-> call, coefs |-> coefs]

\* coefficient matrices of a model with dims outputs and nfeat features
CoefMatrices(dims, nfeat) == [1..dims -> [1..nfeat -> {0, 1}]]

\* what the engine does in one evaluation: whether fit and score complete,
\* the score it returns, the coefficients it fits
EngineOutcomes(dims, nfeat) ==
    [fit_ok : BOOLEAN, score_ok : BOOLEAN, score : 0..MaxScore,
     coefs : CoefMatrices(dims, nfeat)]

(***************************************************************************)
(* evalSymbReg (symindy.py): the fitness evaluator.                        *)
(***************************************************************************)
\* variant: the threshold one sample lower
validate_input_lax(x_train) == ~(Len(x_train.val) < MinTimepoints - 1)

\* validate_input raises ValueError unless this holds
validate_input(x_train) == ~(Len(x_train.val) < MinTimepoints)

\* variant: the matrix is not transposed
Transpose_none(m) == m

\* model.coefficients().T
Transpose(m) ==
    IF m = <<>> THEN <<>>
    ELSE [f \in 1..Len(m[1]) |-> [d \in 1..Len(m) |-> m[d][f]]]

\* .reshape(-1): the rows one after the other
RECURSIVE Flatten(_)
Flatten(m) == IF m = <<>> THEN <<>> ELSE Head(m) \o Flatten(Tail(m))

\* np.split(a, n) raises ValueError unless n divides len(a)
npSplitRaises(a, n) == Len(a) % n # 0

\* np.split(a, n): n consecutive sections of equal length
npSplit(a, n) ==
    LET g == Len(a) \div n
    IN [i \in 1..n |-> SubSeq(a, (i - 1) * g + 1, i * g)]

\* ind_coefs_list = np.split(model.coefficients().T.reshape(-1), ntrees)
ind_coefs_list(coefs, ntrees) == npSplit(Flatten(Transpose(coefs)), ntrees)

\* np.all(group == 0)
AllZero(group) == \A j \in 1..Len(group) : group[j] = 0

\* variant: every subindividual adds its length
n_nodes_all(individual, coefs, ntrees) ==
    SumSeq([i \in 1..ntrees |-> Len(individual[i])])

\* the loop over range(ntrees): a subindividual with a non-zero coefficient
\* adds len(individual[i])
n_nodes(individual, coefs, ntrees) ==
    LET groups == ind_coefs_list(coefs, ntrees)
    IN SumSeq([i \in 1..ntrees |->
                 IF AllZero(groups[i]) THEN 0 ELSE Len(individual[i])])

\* max_nnodes = 2**(1+max_depth)*ntrees
max_nnodes(max_depth, ntrees) == Pow2(1 + max_depth) * ntrees

\* fitness -= n_nodes/max_nnodes, applied only in mode "n_zero_nodes"
PenalizedFitness(score, individual, coefs, ntrees, max_depth, sparsity) ==
    IF sparsity = "n_zero_nodes"
    THEN RatSub(Rat(score, 1),
                Rat(n_nodes(individual, coefs, ntrees), max_nnodes(max_depth, ntrees)))
    ELSE Rat(score, 1)

\* the data handed to model.fit: the train partition under a split ratio,
\* the whole input without one
FitArgs(x_train, x_dot_train, time_rec_obs, tr_te_ratio) ==
    IF tr_te_ratio.some
    THEN EngineCall(split(x_train, tr_te_ratio)[1],
                    split(time_rec_obs, tr_te_ratio)[1],
                    split(x_dot_train, tr_te_ratio)[1])
    ELSE EngineCall(x_train, time_rec_obs, x_dot_train)

\* the data handed to model.score: the test partition under a split ratio,
\* the whole input without one
ScoreArgs(x_train, x_dot_train, time_rec_obs, tr_te_ratio) ==
    IF tr_te_ratio.some
    THEN EngineCall(split(x_train, tr_te_ratio)[2],
                    split(time_rec_obs, tr_te_ratio)[2],
                    split(x_dot_train, tr_te_ratio)[2])
    ELSE EngineCall(x_train, time_rec_obs, x_dot_train)

\* The result of one call.  kind: "fitness" ([fitness,] returned), "model"
\* (the model returned), or the exception raised.  fitCalls and scoreCalls
\* are the engine calls made during the call, created whether the model
\* object was constructed.
NoFitness == Rat(0, 1)
EvalOut(kind, created, fitCalls, scoreCalls, fitness, model) ==
    [kind |-> kind, created |-> created, fitCalls |-> fitCalls,
     scoreCalls |-> scoreCalls, fitness |-> fitness, model |-> model]

EvalInput(individual, ntrees, max_depth, x_train, x_dot_train, time_rec_obs, flag_solution, tr_te_ratio, sparsity) ==
    [individual |-> individual, ntrees |-> ntrees, max_depth |-> max_depth,
     x_train |-> x_train, x_dot_train |-> x_dot_train,
     time_rec_obs |-> time_rec_obs, flag_solution |-> flag_solution,
     tr_te_ratio |-> tr_te_ratio, sparsity |-> sparsity]

evalSymbReg(inp, eng) ==
    LET fitArgs   == FitArgs(inp.x_train, inp.x_dot_train, inp.time_rec_obs,
                             inp.tr_te_ratio)
        scoreArgs == ScoreArgs(inp.x_train, inp.x_dot_train, inp.time_rec_obs,
                               inp.tr_te_ratio)
        fitness   == PenalizedFitness(eng.score, inp.individual, eng.coefs,
                                      inp.ntrees, inp.max_depth, inp.sparsity)
    IN
    IF ~validate_input(inp.x_train)
    THEN EvalOut("ValueError", FALSE, <<>>, <<>>, NoFitness, NoModel)
    ELSE IF inp.tr_te_ratio.some
            /\ (splitRaises(inp.x_dot_train) \/ splitRaises(inp.time_rec_obs))
    THEN EvalOut("TypeError", TRUE, <<>>, <<>>, NoFitness, NoModel)
    ELSE IF ~eng.fit_ok
    THEN EvalOut("EngineError", TRUE, <<fitArgs>>, <<>>, NoFitness, NoModel)
    ELSE IF ~eng.score_ok
    THEN EvalOut("EngineError", TRUE, <<fitArgs>>, <<scoreArgs>>, NoFitness, NoModel)
    ELSE IF inp.sparsity = "n_zero_nodes"
            /\ npSplitRaises(Flatten(Transpose(eng.coefs)), inp.ntrees)
    THEN EvalOut("ValueError", TRUE, <<fitArgs>>, <<scoreArgs>>, NoFitness, NoModel)
    ELSE IF ~inp.flag_solution
    THEN EvalOut("fitness", TRUE, <<fitArgs>>, <<scoreArgs>>, fitness, NoModel)
    ELSE EvalOut("model", TRUE, <<fitArgs>>, <<scoreArgs>>, NoFitness,
                 FittedModel(fitArgs, eng.coefs))

(***************************************************************************)
(* evalSymbReg (main_tmp.py): the earlier variant.  No split ratio and no  *)
(* sparsity argument; the model is constructed before the validation; the  *)
(* slice bound is np.floor(0.8) * len(x_train), a float.                   *)
(***************************************************************************)
\* np.floor(0.8) * len(x_train): np.floor returns the float 0.0
SliceBound_tmp(x_train) == [isInt |-> FALSE, val |-> 0 * Len(x_train.val)]

\* x[:bound] and x[bound:] raise TypeError for a bound that is not an integer
SliceRaises(bound) == ~bound.isInt

\* fitness = -model.score(...)
ScoreFitness_tmp(score) == RatNeg(Rat(score, 1))

evalSymbReg_tmp(inp, eng) ==
    LET bound     == SliceBound_tmp(inp.x_train)
        x         == inp.x_train.val
        xd        == inp.x_dot_train
        fitArgs   == EngineCall(Arr(SubSeq(x, 1, bound.val)), inp.time_rec_obs,
                                IF xd.kind = "none" THEN NoneArr
                                ELSE Arr(SubSeq(xd.val, 1, bound.val)))
        scoreArgs == EngineCall(Arr(SubSeq(x, bound.val + 1, Len(x))),
                                inp.time_rec_obs,
                                Arr(SubSeq(xd.val, bound.val + 1, Len(xd.val))))
    IN
    IF ~validate_input(inp.x_train)
    THEN EvalOut("ValueError", TRUE, <<>>, <<>>, NoFitness, NoModel)
    ELSE IF SliceRaises(bound)
    THEN EvalOut("TypeError", TRUE, <<>>, <<>>, NoFitness, NoModel)
    ELSE IF ~eng.fit_ok
    THEN EvalOut("EngineError", TRUE, <<fitArgs>>, <<>>, NoFitness, NoModel)
    ELSE IF xd.kind = "none"
    THEN EvalOut("TypeError", TRUE, <<fitArgs>>, <<>>, NoFitness, NoModel)
    ELSE IF ~eng.score_ok
    THEN EvalOut("EngineError", TRUE, <<fitArgs>>, <<scoreArgs>>, NoFitness, NoModel)
    ELSE IF ~inp.flag_solution
    THEN EvalOut("fitness", TRUE, <<fitArgs>>, <<scoreArgs>>,
                 ScoreFitness_tmp(eng.score), NoModel)
    ELSE EvalOut("model", TRUE, <<fitArgs>>, <<scoreArgs>>, NoFitness,
                 FittedModel(fitArgs, eng.coefs))


(***************************************************************************)
(* Individuals and DEAP's fitness, selection and hall of fame.             *)
(***************************************************************************)
\* base.Fitness: values is () until assigned, and after del fitness.values
InvalidFitness == [valid |-> FALSE, values |-> Rat(0, 1)]
ValidFitness(v) == [valid |-> TRUE, values |-> v]

\* creator.Individual: a list of ntrees trees with a fitness attribute
Individual(trees, fitness) == [trees |-> trees, fitness |-> fitness]

\* variant: the fitness values are left in place
DelFitness_keep(ind) == ind

\* del ind.fitness.values
DelFitness(ind) == [ind EXCEPT !.fitness = InvalidFitness]

\* ind.fitness.values = fit
SetFitness(ind, fit) == [ind EXCEPT !.fitness = ValidFitness(fit)]

\* variant: the weight with the opposite sign
wvalue_neg(f) == Rat(f.values.num * (0 - FitnessWeight), f.values.den)

\* Fitness.wvalues: the values times the weights, () when invalid
wvalue(f) == Rat(f.values.num * FitnessWeight, f.values.den)

\* Fitness.__le__: comparison of the wvalues tuples
FitnessLe(a, b) ==
    IF ~a.valid THEN TRUE
    ELSE IF ~b.valid THEN FALSE
    ELSE RatLeq(wvalue(a), wvalue(b))

\* Fitness.__gt__: not __le__
FitnessGt(a, b) == ~FitnessLe(a, b)

\* tools.selTournament(individuals, k, tournsize=2): each of the k places
\* draws the aspirants at random and keeps max(aspirants, key=fitness), the
\* first of the best.  The result lists the indices of the chosen references.
TournamentWinner(individuals, a1, a2) ==
    IF FitnessGt(individuals[a2].fitness, individuals[a1].fitness) THEN a2 ELSE a1

\* variant: one place fewer than asked for
selTournament_short(individuals, k) ==
    { [j \in 1..(k - 1) |-> TournamentWinner(individuals, draw[j][1], draw[j][2])] :
        draw \in [1..(k - 1) -> (1..Len(individuals)) \X (1..Len(individuals))] }

selTournament(individuals, k) ==
    { [j \in 1..k |-> TournamentWinner(individuals, draw[j][1], draw[j][2])] :
        draw \in [1..k -> (1..Len(individuals)) \X (1..Len(individuals))] }

\* HallOfFame.similar: operator.eq on the two lists of trees
similar(ind, hofer) == ind.trees = hofer.trees

\* HallOfFame.insert: a deep copy, placed so that the items stay best first
HofInsert(hof, item) ==
    LET i == Cardinality({ j \in 1..Len(hof) :
                             FitnessLe(hof[j].fitness, item.fitness) })
        at == Len(hof) - i
    IN SubSeq(hof, 1, at) \o <<item>> \o SubSeq(hof, at + 1, Len(hof))

\* HallOfFame.update(population), from the j-th individual on
RECURSIVE HofUpdateFrom(_, _, _)
HofUpdateFrom(hof, population, j) ==
    IF j > Len(population) THEN hof
    ELSE LET ind == population[j]
         IN IF Len(hof) = 0 /\ HofMaxSize # 0
            THEN HofUpdateFrom(HofInsert(hof, population[1]), population, j + 1)
            ELSE IF (FitnessGt(ind.fitness, hof[Len(hof)].fitness)
                       \/ Len(hof) < HofMaxSize)
                    /\ ~(\E h \in 1..Len(hof) : similar(ind, hof[h]))
            THEN HofUpdateFrom(
                     HofInsert(IF Len(hof) >= HofMaxSize
                               THEN SubSeq(hof, 1, Len(hof) - 1) ELSE hof, ind),
                     population, j + 1)
            ELSE HofUpdateFrom(hof, population, j + 1)

\* variant: only an empty hall of fame takes an individual
HofUpdate_first(hof, population) ==
    IF Len(hof) = 0 /\ HofMaxSize # 0 /\ population # <<>>
    THEN HofInsert(hof, population[1]) ELSE hof

HofUpdate(hof, population) == HofUpdateFrom(hof, population, 1)

(***************************************************************************)
(* The same comparisons in main_tmp.py, whose fitness class is FitnessMin. *)
(***************************************************************************)
wvalue_tmp(f) == Rat(f.values.num * FitnessWeight_tmp, f.values.den)

FitnessLe_tmp(a, b) ==
    IF ~a.valid THEN TRUE
    ELSE IF ~b.valid THEN FALSE
    ELSE RatLeq(wvalue_tmp(a), wvalue_tmp(b))

FitnessGt_tmp(a, b) == ~FitnessLe_tmp(a, b)

TournamentWinner_tmp(individuals, a1, a2) ==
    IF FitnessGt_tmp(individuals[a2].fitness, individuals[a1].fitness) THEN a2 ELSE a1

HofInsert_tmp(hof, item) ==
    LET i == Cardinality({ j \in 1..Len(hof) :
                             FitnessLe_tmp(hof[j].fitness, item.fitness) })
        at == Len(hof) - i
    IN SubSeq(hof, 1, at) \o <<item>> \o SubSeq(hof, at + 1, Len(hof))

RECURSIVE HofUpdateFrom_tmp(_, _, _)
HofUpdateFrom_tmp(hof, population, j) ==
    IF j > Len(population) THEN hof
    ELSE LET ind == population[j]
         IN IF Len(hof) = 0 /\ HofMaxSize # 0
            THEN HofUpdateFrom_tmp(HofInsert_tmp(hof, population[1]), population, j + 1)
            ELSE IF (FitnessGt_tmp(ind.fitness, hof[Len(hof)].fitness)
                       \/ Len(hof) < HofMaxSize)
                    /\ ~(\E h \in 1..Len(hof) : similar(ind, hof[h]))
            THEN HofUpdateFrom_tmp(
                     HofInsert_tmp(IF Len(hof) >= HofMaxSize
                                   THEN SubSeq(hof, 1, Len(hof) - 1) ELSE hof, ind),
                     population, j + 1)
            ELSE HofUpdateFrom_tmp(hof, population, j + 1)

HofUpdate_tmp(hof, population) == HofUpdateFrom_tmp(hof, population, 1)

(***************************************************************************)
(* configure_DEAP and fit: the toolbox of one run.                         *)
(***************************************************************************)
\* the library of the driver's runs: one state variable (dims = 1, nc = 0,
\* no time slot) and one function of one argument, so that a prefix list of
\* arities is a whole tree and equal lists are equal trees
DriverArities == {1}
DriverDims == 1

\* toolbox.expr: gp.genHalfAndHalf(pset, min_=0, max_=max_depth), any tree of
\* height 0..max_depth
genHalfAndHalf(max_) ==
    { t \in TreesOver(DriverArities, Pow2(1 + max_) - 1) : Height(t) <= max_ }

\* toolbox.population(n): n individuals of ntrees generated trees each, no
\* fitness yet
Populations(n, ntrees, max_depth) ==
    [1..n -> { Individual(trees, InvalidFitness) :
                 trees \in [1..ntrees -> genHalfAndHalf(max_depth)] }]

\* toolbox.mate and toolbox.mutate: the random operators under
\* gp.staticLimit(key=height, max_value=2)
mate(ind1, ind2) == staticLimit_mate(ind1, ind2, StaticLimitMaxValue)
mutate(individual) ==
    staticLimit_mutate(individual, DriverArities, StaticLimitMaxValue)

\* toolbox.register("evaluate", self.evalSymbReg, ..., flag_solution=False,
\*                  tr_te_ratio=0.8, sparsity=self.sparsity)
evaluate(individual, c, d) ==
    EvalInput(individual.trees, c.ntrees, c.max_depth, d.x, d.x_dot, d.t,
              FALSE, Ratio(8, 10), c.sparsity)

\* toolbox.register("retrieve_model", self.evalSymbReg, ..., flag_solution=True,
\*                  tr_te_ratio=0.8, sparsity=self.sparsity)
retrieve_model(individual, c, d) ==
    EvalInput(individual.trees, c.ntrees, c.max_depth, d.x, d.x_dot, d.t,
              TRUE, Ratio(8, 10), c.sparsity)

(***************************************************************************)
(* State.                                                                  *)
(*   ev : one call of the fitness evaluator: the variant called, the       *)
(*        number of state dimensions of x_train, the arguments, and the    *)
(*        result once the call has ended (pc "called" -> "returned"), with *)
(*        what the engine did when the call got as far as its results.     *)
(*   The other variables are one run of the driver:                        *)
(*   cfg         : who runs my_eaSimple ("fit", or a caller of             *)
(*                 configure_DEAP with its own max_depth), ngen, ntrees,   *)
(*                 n_individuals, max_depth, sparsity                      *)
(*   data        : x_train, x_dot_train, time_rec_obs                      *)
(*   pc          : the driver's position                                   *)
(*   gen         : the loop variable of my_eaSimple                        *)
(*   population  : the list of individuals                                 *)
(*   selected    : the references toolbox.select returned, as indices      *)
(*                 into population                                         *)
(*   offspring   : the clones being varied and evaluated                   *)
(*   aliased     : <<i, h>> when offspring[i-1][h] and offspring[i][h] are *)
(*                 one and the same tree object                            *)
(*   pos         : loop indices of the step under way (i, h)               *)
(*   invalid_ind : the indices of the individuals to evaluate              *)
(*   hof         : the hall of fame, best first                            *)
(*   logbook     : the records (gen, nevals)                               *)
(*   final_model : the model retrieve_model returned                       *)
(*   self        : the result attributes of the SymINDy object             *)
(*   exc         : the exception that ended the run, "" when none          *)
(*   touched, evals, best : history of the run, read by the properties     *)
(*                 only: the offspring handed to mate or mutate in this    *)
(*                 variation, the evaluations of each individual in this   *)
(*                 generation, the best fitness any evaluation returned    *)
(***************************************************************************)
VARIABLES ev, cfg, data, pc, gen, population, selected, offspring, aliased,
          pos, invalid_ind, hof, logbook, final_model, self, exc,
          touched, evals, best

evalVars == <<ev>>
driverVars == <<cfg, data, pc, gen, population, selected, offspring, aliased,
                pos, invalid_ind, hof, logbook, final_model, self, exc,
                touched, evals, best>>
vars == <<ev, cfg, data, pc, gen, population, selected, offspring, aliased,
          pos, invalid_ind, hof, logbook, final_model, self, exc,
          touched, evals, best>>

PendingOut == EvalOut("pending", FALSE, <<>>, <<>>, NoFitness, NoModel)

\* no evaluator call under way (the driver's specification)
EvIdle == [pc |-> "idle", variant |-> "symindy", dims |-> 1,
           inp |-> <<>>, eng |-> <<>>, out |-> PendingOut]

NoSelf == [set |-> FALSE, population |-> <<>>, log |-> <<>>, hof |-> <<>>,
           final_model |-> NoModel]
NoBest == [some |-> FALSE, val |-> Rat(0, 1)]

\* no driver run under way (the evaluator's specification)
DriverIdle ==
    /\ cfg = [caller |-> "none", ngen |-> 0, ntrees |-> 0, n_individuals |-> 0,
              max_depth |-> 0, sparsity |-> "none"]
    /\ data = [x |-> NoneArr, x_dot |-> NoneArr, t |-> NoneArr]
    /\ pc = "idle"
    /\ gen = 0
    /\ population = <<>>
    /\ selected = <<>>
    /\ offspring = <<>>
    /\ aliased = {}
    /\ pos = [i |-> 1, h |-> 1]
    /\ invalid_ind = <<>>
    /\ hof = <<>>
    /\ logbook = <<>>
    /\ final_model = NoModel
    /\ self = NoSelf
    /\ exc = ""
    /\ touched = {}
    /\ evals = <<>>
    /\ best = NoBest

(***************************************************************************)
(* Specification SpecEval: single calls of evalSymbReg on bounded inputs.  *)
(***************************************************************************)
EvalRatios == {NoRatio, Ratio(8, 10), Ratio(1, 2)}
EvalSparsities == {"n_nodes", "n_zero_nodes"}

\* x_train of n samples, with x_dot_train and time_rec_obs given or not
EvalData == { [x |-> Arr(Iota(n)), x_dot |-> xd, t |-> t] :
                n \in 0..EvalMaxSamples,
                xd \in {"none", "array"}, t \in {"none", "array", "float"} }

DataArr(kind, n) ==
    IF kind = "none" THEN NoneArr
    ELSE IF kind = "float" THEN FloatArr ELSE Arr(Iota(n))

\* the arguments of a call of SymINDy.evalSymbReg on an individual of nt trees
EvalInputs(nt) ==
    { EvalInput(ind, nt, md, d.x, DataArr(d.x_dot, Len(d.x.val)),
                DataArr(d.t, Len(d.x.val)), fs, r, sp) :
        ind \in [1..nt -> TreesUpTo(EvalMaxNodes)],
        md \in 1..EvalMaxDepth, d \in EvalData, fs \in BOOLEAN,
        r \in EvalRatios, sp \in EvalSparsities }

\* the arguments of a call of SymINDy_class.evalSymbReg, which has no split
\* ratio and no sparsity mode
EvalInputs_tmp(nt) ==
    { EvalInput(ind, nt, DefaultMaxDepth, d.x, DataArr(d.x_dot, Len(d.x.val)),
                DataArr(d.t, Len(d.x.val)), fs, NoRatio, "none") :
        ind \in [1..nt -> TreesUpTo(EvalMaxNodes)],
        d \in EvalData, fs \in BOOLEAN }

InitEval ==
    /\ DriverIdle
    /\ \E variant \in {"symindy", "main_tmp"}, dims \in 1..EvalMaxDims,
          nt \in 1..EvalMaxNTrees :
         \E inp \in IF variant = "symindy" THEN EvalInputs(nt) ELSE EvalInputs_tmp(nt) :
           ev = [pc |-> "called", variant |-> variant, dims |-> dims,
                 inp |-> inp, eng |-> <<>>, out |-> PendingOut]

\* the engine's score and coefficients, kept when the call read them
EngineUsed(out, eng) == IF out.kind \in {"fitness", "model"} THEN <<eng>> ELSE <<>>

\* one call of SymINDy.evalSymbReg, with what the engine did during it
EvalCall ==
    /\ ev.pc = "called"
    /\ ev.variant = "symindy"
    /\ \E eng \in EngineOutcomes(ev.dims, ev.inp.ntrees) :
         ev' = [ev EXCEPT !.pc = "returned",
                          !.eng = EngineUsed(evalSymbReg(ev.inp, eng), eng),
                          !.out = evalSymbReg(ev.inp, eng)]
    /\ UNCHANGED driverVars

\* one call of SymINDy_class.evalSymbReg
EvalCall_tmp ==
    /\ ev.pc = "called"
    /\ ev.variant = "main_tmp"
    /\ \E eng \in EngineOutcomes(ev.dims, ev.inp.ntrees) :
         ev' = [ev EXCEPT !.pc = "returned",
                          !.eng = EngineUsed(evalSymbReg_tmp(ev.inp, eng), eng),
                          !.out = evalSymbReg_tmp(ev.inp, eng)]
    /\ UNCHANGED driverVars

NextEval == EvalCall \/ EvalCall_tmp

SpecEval == InitEval /\ [][NextEval]_vars

(***************************************************************************)
(* Specification Spec: one run of the driver.  fit() configures the        *)
(* toolbox with the default max_depth, runs my_eaSimple and retrieves the  *)
(* final model; a caller of configure_DEAP(max_depth=...) runs my_eaSimple *)
(* on the toolbox it got.                                                  *)
(***************************************************************************)
DriverConfigs ==
    { [caller |-> "fit", ngen |-> g, ntrees |-> NTrees,
       n_individuals |-> NIndividuals, max_depth |-> DefaultMaxDepth,
       sparsity |-> DefaultSparsity] : g \in 0..MaxNgen }
    \cup
    { [caller |-> "configure_DEAP", ngen |-> g, ntrees |-> NTrees,
       n_individuals |-> NIndividuals, max_depth |-> md,
       sparsity |-> DefaultSparsity] : g \in 0..MaxNgen, md \in 1..DriverMaxDepth }

\* the training data of a run: enough samples with derivatives and times
\* given, too few samples, or a scalar time step
DriverData ==
    { [x |-> Arr(Iota(DriverSamples)), x_dot |-> Arr(Iota(DriverSamples)),
       t |-> Arr(Iota(DriverSamples))],
      [x |-> Arr(Iota(MinTimepoints - 1)), x_dot |-> NoneArr, t |-> NoneArr],
      [x |-> Arr(Iota(DriverSamples)), x_dot |-> NoneArr, t |-> FloatArr] }

\* pop = toolbox.population(n=self.n_individuals)
FirstPopulations(c) == Populations(c.n_individuals, c.ntrees, c.max_depth)

\* the first populations whose trees are no taller than FairMaxHeight
ShortPopulations(c) ==
    Populations(c.n_individuals, c.ntrees,
                IF c.max_depth < FairMaxHeight THEN c.max_depth ELSE FairMaxHeight)

\* the state when my_eaSimple starts the evaluation of a first population,
\* one of the short ones when short holds
Start(short) ==
    /\ ev = EvIdle
    /\ cfg \in DriverConfigs
    /\ data \in DriverData
    /\ population \in IF short THEN ShortPopulations(cfg) ELSE FirstPopulations(cfg)
    /\ pc = "evaluate0"
    /\ gen = 0
    /\ selected = <<>>
    /\ offspring = <<>>
    /\ aliased = {}
    /\ pos = [i |-> 1, h |-> 1]
    /\ invalid_ind = Iota(cfg.n_individuals)
    /\ hof = <<>>
    /\ logbook = <<>>
    /\ final_model = NoModel
    /\ self = NoSelf
    /\ exc = ""
    /\ touched = {}
    /\ evals = [j \in 1..cfg.n_individuals |-> 0]
    /\ best = NoBest

Init == Start(FALSE)

\* invalid_ind = [ind for ind in individuals if not ind.fitness.valid]
RECURSIVE InvalidFrom(_, _)
InvalidFrom(individuals, j) ==
    IF j > Len(individuals) THEN <<>>
    ELSE (IF individuals[j].fitness.valid THEN <<>> ELSE <<j>>)
           \o InvalidFrom(individuals, j + 1)

\* variant: every individual is listed
InvalidInd_all(individuals) == Iota(Len(individuals))

\* variant: only the first individual without a fitness is listed
InvalidInd_first(individuals) ==
    IF InvalidFrom(individuals, 1) = <<>> THEN <<>>
    ELSE <<InvalidFrom(individuals, 1)[1]>>

InvalidInd(individuals) == InvalidFrom(individuals, 1)

\* The fitting engine is deterministic: an individual whose trees equal those
\* of an individual that holds a fitness gets that fitness again.
Held == { population[j] : j \in 1..Len(population) }
          \cup { offspring[j] : j \in 1..Len(offspring) }
          \cup { hof[j] : j \in 1..Len(hof) }

Deterministic(ind, out) ==
    \A other \in Held :
        (other.fitness.valid /\ other.trees = ind.trees)
          => (out.kind = "fitness" /\ out.fitness = other.fitness.values)

\* variant: a failed evaluation yields the fitness 0 instead of its exception
EvaluateResults_fallback(ind) ==
    { IF out.kind = "fitness" THEN out
      ELSE [out EXCEPT !.kind = "fitness", !.fitness = Rat(0, 1)] :
        out \in { evalSymbReg(evaluate(ind, cfg, data), eng) :
                    eng \in EngineOutcomes(DriverDims, cfg.ntrees) } }

\* toolbox.evaluate(ind): the results the engine's outcomes allow
EvaluateResults(ind) ==
    { out \in { evalSymbReg(evaluate(ind, cfg, data), eng) :
                  eng \in EngineOutcomes(DriverDims, cfg.ntrees) } :
        Deterministic(ind, out) }

BestAfter(b, fit) ==
    IF b.some /\ RatLeq(fit, b.val) THEN b ELSE [some |-> TRUE, val |-> fit]

\* for ind, fit in zip(invalid_ind, fitnesses): ind.fitness.values = fit
\* one turn of the loop over the first population; the map is lazy, so the
\* evaluation of an individual and the assignment of its fitness alternate
Evaluate0 ==
    /\ pc = "evaluate0"
    /\ LET j == invalid_ind[pos.i]
       IN \E out \in EvaluateResults(population[j]) :
            IF out.kind = "fitness"
            THEN /\ population' = [population EXCEPT ![j] = SetFitness(@, out.fitness)]
                 /\ evals' = [evals EXCEPT ![j] = @ + 1]
                 /\ best' = BestAfter(best, out.fitness)
                 /\ pos' = [i |-> pos.i + 1, h |-> 1]
                 /\ pc' = IF pos.i = Len(invalid_ind) THEN "archive0" ELSE "evaluate0"
                 /\ exc' = exc
            ELSE /\ pc' = "raised"
                 /\ exc' = out.kind
                 /\ UNCHANGED <<population, evals, best, pos>>
    /\ UNCHANGED <<ev, cfg, data, gen, selected, offspring, aliased, invalid_ind,
                   hof, logbook, final_model, self, touched>>

\* halloffame.update(population)
Archive0 ==
    /\ pc = "archive0"
    /\ hof' = HofUpdate(hof, population)
    /\ pc' = "record0"
    /\ UNCHANGED <<ev, cfg, data, gen, population, selected, offspring, aliased,
                   pos, invalid_ind, logbook, final_model, self, exc, touched,
                   evals, best>>

\* logbook.record(gen=0, nevals=len(invalid_ind), **record)
Record0 ==
    /\ pc = "record0"
    /\ logbook' = Append(logbook, [gen |-> 0, nevals |-> Len(invalid_ind)])
    /\ gen' = 1
    /\ pc' = "loop"
    /\ UNCHANGED <<ev, cfg, data, population, selected, offspring, aliased, pos,
                   invalid_ind, hof, final_model, self, exc, touched, evals, best>>

\* variant: one generation more
LastGen_more(ngen) == ngen + 1

\* the upper end of range(1, ngen + 1)
LastGen(ngen) == ngen

\* for gen in range(1, ngen + 1):
\*     offspring = toolbox_local.select(population, len(population))
Select ==
    /\ pc = "loop"
    /\ gen <= LastGen(cfg.ngen)
    /\ selected' \in selTournament(population, Len(population))
    /\ evals' = [j \in 1..Len(population) |-> 0]
    /\ pc' = "clone"
    /\ UNCHANGED <<ev, cfg, data, gen, population, offspring, aliased, pos,
                   invalid_ind, hof, logbook, final_model, self, exc, touched, best>>

\* return population, logbook, halloffame
Return ==
    /\ pc = "loop"
    /\ ~(gen <= LastGen(cfg.ngen))
    /\ pc' = "returned"
    /\ UNCHANGED <<ev, cfg, data, gen, population, selected, offspring, aliased,
                   pos, invalid_ind, hof, logbook, final_model, self, exc,
                   touched, evals, best>>

\* offspring = [toolbox_local.clone(ind) for ind in population], on the
\* selected references: deep copies, fitness included
Clone ==
    /\ pc = "clone"
    /\ offspring' = [j \in 1..Len(selected) |-> population[selected[j]]]
    /\ touched' = {}
    /\ aliased' = {}
    /\ IF Len(selected) >= 2
       THEN pc' = "crossover" /\ pos' = [i |-> 2, h |-> 1]
       ELSE pc' = "mutate" /\ pos' = [i |-> 1, h |-> 1]
    /\ UNCHANGED <<ev, cfg, data, gen, population, selected, invalid_ind, hof,
                   logbook, final_model, self, exc, evals, best>>

\* variant: the tree is stored at every index
SetTree_all(ind, h, tree) == [ind EXCEPT !.trees = [g \in DOMAIN @ |-> tree]]

\* individual[h_component] = tree
SetTree(ind, h, tree) == [ind EXCEPT !.trees[h] = tree]

\* the next turn of for i in range(1, len(offspring), 2), or the first turn
\* of the mutation loop
CrossoverAdvance ==
    IF pos.i + 2 <= Len(offspring)
    THEN pc' = "crossover" /\ pos' = [i |-> pos.i + 2, h |-> 1]
    ELSE pc' = "mutate" /\ pos' = [i |-> 1, h |-> 1]

\* if random.random() < cxpb: one tree index, mate on the two trees at that
\* index, del of both fitness values
Crossover ==
    /\ pc = "crossover"
    /\ \E h \in 1..cfg.ntrees :
         \E r \in mate(offspring[pos.i - 1].trees[h], offspring[pos.i].trees[h]) :
           /\ offspring' = [offspring EXCEPT
                              ![pos.i - 1] = DelFitness(SetTree(@, h, r.t1)),
                              ![pos.i] = DelFitness(SetTree(@, h, r.t2))]
           /\ aliased' = IF r.same THEN aliased \cup {<<pos.i, h>>} ELSE aliased
    /\ touched' = touched \cup {pos.i - 1, pos.i}
    /\ CrossoverAdvance
    /\ UNCHANGED <<ev, cfg, data, gen, population, selected, invalid_ind, hof,
                   logbook, final_model, self, exc, evals, best>>

\* random.random() >= cxpb: the pair is left as it is
SkipCrossover ==
    /\ pc = "crossover"
    /\ CrossoverAdvance
    /\ UNCHANGED <<ev, cfg, data, gen, population, selected, offspring, aliased,
                   invalid_ind, hof, logbook, final_model, self, exc, touched,
                   evals, best>>

\* the next turn of the two mutation loops; after the last one _my_varAnd
\* returns and my_eaSimple lists the individuals with an invalid fitness
MutateAdvance(off) ==
    IF pos.h < cfg.ntrees
    THEN pc' = "mutate" /\ pos' = [i |-> pos.i, h |-> pos.h + 1]
         /\ invalid_ind' = invalid_ind
    ELSE IF pos.i < Len(off)
    THEN pc' = "mutate" /\ pos' = [i |-> pos.i + 1, h |-> 1]
         /\ invalid_ind' = invalid_ind
    ELSE /\ invalid_ind' = InvalidInd(off)
         /\ pos' = [i |-> 1, h |-> 1]
         /\ pc' = IF InvalidInd(off) = <<>> THEN "archive" ELSE "evaluate"

\* the offspring that holds the same tree object at index h, 0 when none
Partner(i, h) ==
    IF <<i, h>> \in aliased THEN i - 1
    ELSE IF <<i + 1, h>> \in aliased THEN i + 1 ELSE 0

\* if random.random() < mutpb: mutate on the tree, del of the fitness values.
\* The operator works in place: a second holder of the tree object sees the
\* tree it built, also when staticLimit hands back the copy.
Mutate ==
    /\ pc = "mutate"
    /\ \E r \in mutate(offspring[pos.i].trees[pos.h]) :
         LET p   == Partner(pos.i, pos.h)
             own == [offspring EXCEPT ![pos.i] = DelFitness(SetTree(@, pos.h, r.kept))]
             off == IF p = 0 THEN own
                    ELSE [own EXCEPT ![p] = SetTree(@, pos.h, r.made)]
         IN /\ offspring' = off
            /\ aliased' = IF p # 0 /\ r.rejected
                          THEN aliased \ {<<pos.i, pos.h>>, <<pos.i + 1, pos.h>>}
                          ELSE aliased
            /\ MutateAdvance(off)
    /\ touched' = touched \cup {pos.i}
    /\ UNCHANGED <<ev, cfg, data, gen, population, selected, hof, logbook,
                   final_model, self, exc, evals, best>>

\* random.random() >= mutpb: the tree is left as it is
SkipMutate ==
    /\ pc = "mutate"
    /\ MutateAdvance(offspring)
    /\ UNCHANGED <<ev, cfg, data, gen, population, selected, offspring, aliased,
                   hof, logbook, final_model, self, exc, touched, evals, best>>

\* one turn of the loop over the offspring with an invalid fitness
Evaluate ==
    /\ pc = "evaluate"
    /\ LET j == invalid_ind[pos.i]
       IN \E out \in EvaluateResults(offspring[j]) :
            IF out.kind = "fitness"
            THEN /\ offspring' = [offspring EXCEPT ![j] = SetFitness(@, out.fitness)]
                 /\ evals' = [evals EXCEPT ![j] = @ + 1]
                 /\ best' = BestAfter(best, out.fitness)
                 /\ pos' = [i |-> pos.i + 1, h |-> 1]
                 /\ pc' = IF pos.i = Len(invalid_ind) THEN "archive" ELSE "evaluate"
                 /\ exc' = exc
            ELSE /\ pc' = "raised"
                 /\ exc' = out.kind
                 /\ UNCHANGED <<offspring, evals, best, pos>>
    /\ UNCHANGED <<ev, cfg, data, gen, population, selected, aliased, invalid_ind,
                   hof, logbook, final_model, self, touched>>

\* halloffame.update(offspring)
Archive ==
    /\ pc = "archive"
    /\ hof' = HofUpdate(hof, offspring)
    /\ pc' = "replace"
    /\ UNCHANGED <<ev, cfg, data, gen, population, selected, offspring, aliased,
                   pos, invalid_ind, logbook, final_model, self, exc, touched,
                   evals, best>>

\* population[:] = offspring
Replace ==
    /\ pc = "replace"
    /\ population' = offspring
    /\ pc' = "record"
    /\ UNCHANGED <<ev, cfg, data, gen, selected, offspring, aliased, pos,
                   invalid_ind, hof, logbook, final_model, self, exc, touched,
                   evals, best>>

\* logbook.record(gen=gen, nevals=len(invalid_ind), **record); the next turn
\* of the loop rebinds offspring
Record ==
    /\ pc = "record"
    /\ logbook' = Append(logbook, [gen |-> gen, nevals |-> Len(invalid_ind)])
    /\ gen' = gen + 1
    /\ pc' = "loop"
    /\ selected' = <<>>
    /\ offspring' = <<>>
    /\ aliased' = {}
    /\ touched' = {}
    /\ UNCHANGED <<ev, cfg, data, population, pos, invalid_ind, hof, final_model,
                   self, exc, evals, best>>

\* final_model = toolbox.retrieve_model(hof[0]): one more call of the
\* evaluator, on the same data and with the same split as the evaluations;
\* an exception of the call ends fit
RetrieveModel ==
    /\ pc = "returned"
    /\ cfg.caller = "fit"
    /\ \E eng \in EngineOutcomes(DriverDims, cfg.ntrees) :
         LET out == evalSymbReg(retrieve_model(hof[1], cfg, data), eng)
         IN IF out.kind = "model"
            THEN /\ final_model' = out.model
                 /\ pc' = "store"
                 /\ exc' = exc
            ELSE /\ pc' = "raised"
                 /\ exc' = out.kind
                 /\ final_model' = final_model
    /\ UNCHANGED <<ev, cfg, data, gen, population, selected, offspring, aliased,
                   pos, invalid_ind, hof, logbook, self, touched, evals, best>>

\* self.population = pop; self.log = log; self.hof = hof;
\* self.final_model = final_model
Store ==
    /\ pc = "store"
    /\ self' = [set |-> TRUE, population |-> population, log |-> logbook,
                hof |-> hof, final_model |-> final_model]
    /\ pc' = "done"
    /\ UNCHANGED <<ev, cfg, data, gen, population, selected, offspring, aliased,
                   pos, invalid_ind, hof, logbook, final_model, exc, touched,
                   evals, best>>

Next ==
    \/ Evaluate0 \/ Archive0 \/ Record0
    \/ Select \/ Return
    \/ Clone \/ Crossover \/ SkipCrossover \/ Mutate \/ SkipMutate
    \/ Evaluate \/ Archive \/ Replace \/ Record
    \/ RetrieveModel \/ Store

Spec == Init /\ [][Next]_vars

\* the run is over: fit has stored its results, the caller of configure_DEAP
\* has its return values, or an exception has ended the run
Terminated ==
    \/ pc = "done"
    \/ pc = "raised"
    \/ pc = "returned" /\ cfg.caller = "configure_DEAP"

\* Python runs the statements of the driver one after the other: a step that
\* can be taken is taken
InitFair == Start(TRUE)

FairSpec == InitFair /\ [][Next]_vars /\ WF_vars(Next)

(***************************************************************************)
(* Specification SpecPairs: selection and the crossover loop of one        *)
(* variation step of fit, on an evaluated first population of              *)
(* PairIndividuals individuals, so that the loop has more than one pair to *)
(* cross.  The population holds two kinds of individuals in turn, each     *)
(* with the fitness of its evaluation.                                     *)
(***************************************************************************)
PairPopulations(c) ==
    { [j \in 1..c.n_individuals |->
         SetFitness(p[2 - (j % 2)], Rat(sc[2 - (j % 2)], 1))] :
        p \in { q \in Populations(2, c.ntrees, c.max_depth) :
                  \A j \in 1..2, h \in 1..c.ntrees : Height(q[j].trees[h]) >= 1 },
        sc \in [1..2 -> 0..MaxScore] }

InitPairs ==
    /\ ev = EvIdle
    /\ cfg = [caller |-> "fit", ngen |-> 1, ntrees |-> NTrees,
              n_individuals |-> PairIndividuals, max_depth |-> DefaultMaxDepth,
              sparsity |-> DefaultSparsity]
    /\ data = [x |-> Arr(Iota(DriverSamples)), x_dot |-> Arr(Iota(DriverSamples)),
               t |-> Arr(Iota(DriverSamples))]
    /\ population \in { p \in PairPopulations(cfg) :
                          p[1].trees = p[2].trees => p[1].fitness = p[2].fitness }
    /\ pc = "loop"
    /\ gen = 1
    /\ selected = <<>>
    /\ offspring = <<>>
    /\ aliased = {}
    /\ pos = [i |-> cfg.n_individuals + 1, h |-> 1]
    /\ invalid_ind = Iota(cfg.n_individuals)
    /\ hof = HofUpdate(<<>>, population)
    /\ logbook = <<[gen |-> 0, nevals |-> cfg.n_individuals]>>
    /\ final_model = NoModel
    /\ self = NoSelf
    /\ exc = ""
    /\ touched = {}
    /\ evals = [j \in 1..cfg.n_individuals |-> 1]
    /\ best = [some |-> TRUE, val |-> hof[1].fitness.values]

NextPairs == Select \/ Clone \/ Crossover \/ SkipCrossover

SpecPairs == InitPairs /\ [][NextPairs]_vars

(***************************************************************************)
(* Specification SpecVary: selection and one whole variation step of       *)
(* my_eaSimple for a caller of configure_DEAP(max_depth=VaryMaxDepth), on  *)
(* an evaluated first population.  genHalfAndHalf builds trees up to       *)
(* max_depth, higher than the limit staticLimit enforces.                  *)
(***************************************************************************)
VaryPopulations(c) ==
    { [j \in 1..c.n_individuals |-> SetFitness(p[j], Rat(sc[j], 1))] :
        p \in FirstPopulations(c), sc \in [1..c.n_individuals -> 0..MaxScore] }

InitVary ==
    /\ ev = EvIdle
    /\ cfg = [caller |-> "configure_DEAP", ngen |-> 1, ntrees |-> 1,
              n_individuals |-> NIndividuals, max_depth |-> VaryMaxDepth,
              sparsity |-> DefaultSparsity]
    /\ data = [x |-> Arr(Iota(DriverSamples)), x_dot |-> Arr(Iota(DriverSamples)),
               t |-> Arr(Iota(DriverSamples))]
    /\ population \in { p \in VaryPopulations(cfg) :
                          \A i, j \in 1..Len(p) :
                              p[i].trees = p[j].trees => p[i].fitness = p[j].fitness }
    /\ pc = "loop"
    /\ gen = 1
    /\ selected = <<>>
    /\ offspring = <<>>
    /\ aliased = {}
    /\ pos = [i |-> cfg.n_individuals + 1, h |-> 1]
    /\ invalid_ind = Iota(cfg.n_individuals)
    /\ hof = HofUpdate(<<>>, population)
    /\ logbook = <<[gen |-> 0, nevals |-> cfg.n_individuals]>>
    /\ final_model = NoModel
    /\ self = NoSelf
    /\ exc = ""
    /\ touched = {}
    /\ evals = [j \in 1..cfg.n_individuals |-> 1]
    /\ best = [some |-> TRUE, val |-> hof[1].fitness.values]

NextVary == Select \/ Clone \/ Crossover \/ SkipCrossover \/ Mutate \/ SkipMutate

SpecVary == InitVary /\ [][NextVary]_vars

(***************************************************************************)
(* Specification SpecTmp: one run of the driver of main_tmp.py.            *)
(* SymINDy_class.fit runs my_eaSimple on its own toolbox, whose evaluate   *)
(* is SymINDy_class.evalSymbReg; my_eaSimple is a static method, and       *)
(* another caller hands it a toolbox whose evaluate returns a fitness for  *)
(* every individual.  The toolbox's map is scoop's futures.map: the        *)
(* evaluations of one generation run side by side and end in any order,    *)
(* the results are handed out in the order of the arguments.  ev holds     *)
(* the results that have arrived and are not yet handed out.  Selection,   *)
(* variation, replacement and record are the statements of symindy.py.     *)
(***************************************************************************)
\* gp.genHalfAndHalf(pset, type_=pset.ret, min_=1, max_=2)
ExprMin_tmp == 1
ExprMax_tmp == 2

genHalfAndHalf_tmp ==
    { t \in TreesOver(DriverArities, Pow2(1 + ExprMax_tmp) - 1) :
        Height(t) >= ExprMin_tmp /\ Height(t) <= ExprMax_tmp }

Populations_tmp(n, ntrees) ==
    [1..n -> { Individual(trees, InvalidFitness) :
                 trees \in [1..ntrees -> genHalfAndHalf_tmp] }]

Configs_tmp ==
    { [caller |-> c, ngen |-> g, ntrees |-> NTrees, n_individuals |-> NIndividuals,
       max_depth |-> ExprMax_tmp, sparsity |-> "none"] :
        c \in {"fit", "my_eaSimple"}, g \in 0..MaxNgen }

\* toolbox.register("evaluate", self.evalSymbReg, ntrees=..., x_train=..., ...)
evaluate_tmp(individual, c, d) ==
    EvalInput(individual.trees, c.ntrees, c.max_depth, d.x, d.x_dot, d.t,
              FALSE, NoRatio, "none")

\* a result of futures.map that has not arrived, and one that has
NoResult == [done |-> FALSE, trees |-> <<>>, out |-> PendingOut]
Result(trees, out) == [done |-> TRUE, trees |-> trees, out |-> out]

Start_tmp ==
    /\ ev = [pc |-> "map", results |-> [k \in 1..NIndividuals |-> NoResult]]
    /\ cfg \in Configs_tmp
    /\ data = [x |-> Arr(Iota(DriverSamples)), x_dot |-> Arr(Iota(DriverSamples)),
               t |-> Arr(Iota(DriverSamples))]
    /\ population \in Populations_tmp(cfg.n_individuals, cfg.ntrees)
    /\ pc = "evaluate0"
    /\ gen = 0
    /\ selected = <<>>
    /\ offspring = <<>>
    /\ aliased = {}
    /\ pos = [i |-> 1, h |-> 1]
    /\ invalid_ind = Iota(cfg.n_individuals)
    /\ hof = <<>>
    /\ logbook = <<>>
    /\ final_model = NoModel
    /\ self = NoSelf
    /\ exc = ""
    /\ touched = {}
    /\ evals = [j \in 1..cfg.n_individuals |-> 0]
    /\ best = NoBest

\* the individuals the map runs over: the first population, later the
\* offspring
Pool == IF pc = "evaluate0" THEN population ELSE offspring

\* toolbox_local.evaluate(ind) on a worker: fit's evaluator with what the
\* engine does, or the fitness another caller's evaluate returns; equal
\* trees get equal results
EvaluateResults_tmp(ind) ==
    { out \in IF cfg.caller = "fit"
              THEN { evalSymbReg_tmp(evaluate_tmp(ind, cfg, data), eng) :
                       eng \in EngineOutcomes(DriverDims, cfg.ntrees) }
              ELSE { EvalOut("fitness", FALSE, <<>>, <<>>, ScoreFitness_tmp(sc),
                             NoModel) : sc \in 0..MaxScore } :
        /\ Deterministic(ind, out)
        /\ \A k \in 1..Len(ev.results) :
             (ev.results[k].done /\ ev.results[k].trees = ind.trees)
               => out = ev.results[k].out }

\* variant: the results are handed out in the order of their arrival, so the
\* k-th individual gets the result of the last argument when that one is in
ResultFor_arrival(results, k, n) == IF results[n].done THEN results[n] ELSE results[k]

\* futures.map yields the k-th result for the k-th argument
ResultFor(results, k, n) == results[k]

\* fitnesses = toolbox_local.map(toolbox_local.evaluate, invalid_ind): the
\* evaluation of one of the individuals not yet handed out ends on its worker
Complete_tmp ==
    /\ pc \in {"evaluate0", "evaluate"}
    /\ \E k \in pos.i..Len(invalid_ind) :
         /\ ~ev.results[k].done
         /\ \E out \in EvaluateResults_tmp(Pool[invalid_ind[k]]) :
              ev' = [ev EXCEPT !.results[k] = Result(Pool[invalid_ind[k]].trees, out)]
    /\ UNCHANGED driverVars

\* for ind, fit in zip(invalid_ind, fitnesses): ind.fitness.values = fit
\* one turn: the next result is in, and is assigned or raises its exception
Assign_tmp ==
    /\ pc \in {"evaluate0", "evaluate"}
    /\ LET n == Len(invalid_ind)
           r == ResultFor(ev.results, pos.i, n)
           j == invalid_ind[pos.i]
       IN /\ r.done
          /\ IF r.out.kind = "fitness"
             THEN /\ IF pc = "evaluate0"
                     THEN /\ population' = [population EXCEPT
                                              ![j] = SetFitness(@, r.out.fitness)]
                          /\ offspring' = offspring
                     ELSE /\ offspring' = [offspring EXCEPT
                                             ![j] = SetFitness(@, r.out.fitness)]
                          /\ population' = population
                  /\ evals' = [evals EXCEPT ![j] = @ + 1]
                  /\ pos' = [i |-> pos.i + 1, h |-> 1]
                  /\ pc' = IF pos.i < n THEN pc
                           ELSE IF pc = "evaluate0" THEN "archive0" ELSE "archive"
                  /\ ev' = IF pos.i < n THEN ev
                           ELSE [ev EXCEPT !.results = [k \in 1..NIndividuals |-> NoResult]]
                  /\ exc' = exc
             ELSE /\ pc' = "raised"
                  /\ exc' = r.out.kind
                  /\ UNCHANGED <<ev, population, offspring, evals, pos>>
    /\ UNCHANGED <<cfg, data, gen, selected, aliased, invalid_ind, hof, logbook,
                   final_model, self, touched, best>>

\* halloffame.update(population)
Archive0_tmp ==
    /\ pc = "archive0"
    /\ hof' = HofUpdate_tmp(hof, population)
    /\ pc' = "record0"
    /\ UNCHANGED <<ev, cfg, data, gen, population, selected, offspring, aliased,
                   pos, invalid_ind, logbook, final_model, self, exc, touched,
                   evals, best>>

\* tools.selTournament(individuals, k, tournsize=2) under FitnessMin
selTournament_tmp(individuals, k) ==
    { [j \in 1..k |-> TournamentWinner_tmp(individuals, draw[j][1], draw[j][2])] :
        draw \in [1..k -> (1..Len(individuals)) \X (1..Len(individuals))] }

\* offspring = toolbox_local.select(population, len(population))
Select_tmp ==
    /\ pc = "loop"
    /\ gen <= LastGen(cfg.ngen)
    /\ selected' \in selTournament_tmp(population, Len(population))
    /\ evals' = [j \in 1..Len(population) |-> 0]
    /\ pc' = "clone"
    /\ UNCHANGED <<ev, cfg, data, gen, population, offspring, aliased, pos,
                   invalid_ind, hof, logbook, final_model, self, exc, touched, best>>

\* halloffame.update(offspring)
Archive_tmp ==
    /\ pc = "archive"
    /\ hof' = HofUpdate_tmp(hof, offspring)
    /\ pc' = "replace"
    /\ UNCHANGED <<ev, cfg, data, gen, population, selected, offspring, aliased,
                   pos, invalid_ind, logbook, final_model, self, exc, touched,
                   evals, best>>

\* the loop variable of for gen in range(1, ngen + 1) once the loop has
\* ended: the last value it took, unbound when the range was empty
LoopVar_tmp(ngen) == IF ngen = 0 THEN [bound |-> FALSE, val |-> 0]
                     ELSE [bound |-> TRUE, val |-> ngen]

\* if gen == ngen + 1:
\*     models = toolbox_local.map(toolbox_local.evaluate, invalid_ind)
\* return population, logbook, halloffame, models
\* and in fit: pop, log, hof = self.my_eaSimple(...), three names for the four
\* values returned
Return_tmp ==
    /\ pc = "loop"
    /\ ~(gen <= LastGen(cfg.ngen))
    /\ LET g == LoopVar_tmp(cfg.ngen)
       IN IF ~g.bound \/ g.val # cfg.ngen + 1
          THEN pc' = "raised" /\ exc' = "UnboundLocalError"
          ELSE IF cfg.caller = "fit"
          THEN pc' = "raised" /\ exc' = "ValueError"
          ELSE pc' = "returned" /\ exc' = exc
    /\ UNCHANGED <<ev, cfg, data, gen, population, selected, offspring, aliased,
                   pos, invalid_ind, hof, logbook, final_model, self, touched,
                   evals, best>>

Next_tmp ==
    \/ Complete_tmp \/ Assign_tmp \/ Archive0_tmp \/ Record0
    \/ Select_tmp \/ Return_tmp
    \/ Clone \/ Crossover \/ SkipCrossover \/ Mutate \/ SkipMutate
    \/ Archive_tmp \/ Replace \/ Record

SpecTmp == Start_tmp /\ [][Next_tmp]_vars

(***************************************************************************)
(* Specification SpecApi: one call of SymINDy.score or of SymINDy.predict. *)
(* The metric (sklearn's r2_score unless the caller gives one) and the     *)
(* model's simulate and predict are library code: a call of one of them    *)
(* returns a value or raises, as the engine decides.                       *)
(***************************************************************************)
\* what one call of the metric does: the exception it raises ("" when none)
\* and the score it returns.  No metric computes a score from None.
MetricOutcomes(a, b) ==
    { o \in [raises : {"", "ValueError", "TypeError"}, value : 0..MaxScore] :
        /\ (a.kind = "none" \/ b.kind = "none") => o.raises # ""
        /\ o.raises # "" => o.value = 0 }

\* a score, or None
NoScore == [some |-> FALSE, value |-> 0]
Score(v) == [some |-> TRUE, value |-> v]

\* the result of a call of score: "returned" with the two scores, or the
\* exception raised; metricCalls lists the pairs the metric was called on
ScoreOut(kind, metricCalls, x_score, xdot_score) ==
    [kind |-> kind, metricCalls |-> metricCalls, x_score |-> x_score,
     xdot_score |-> xdot_score]

\* SymINDy.score(x, x_pred, xdot, xdot_pred, metric, metric_kwargs), given
\* what the metric does on the first and on the second pair
score(inp, m1, m2) ==
    LET first  == <<inp.x, inp.x_pred>>
        second == <<inp.xdot, inp.xdot_pred>>
    IN IF m1.raises # ""
       THEN ScoreOut(m1.raises, <<first>>, NoScore, NoScore)
       ELSE IF m2.raises = "ValueError"
       THEN ScoreOut("returned", <<first, second>>, Score(m1.value), NoScore)
       ELSE IF m2.raises # ""
       THEN ScoreOut(m2.raises, <<first, second>>, NoScore, NoScore)
       ELSE ScoreOut("returned", <<first, second>>, Score(m1.value), Score(m2.value))

\* keyword arguments: None, or a dict, given by the set of its keys
KwargNames == {"u", "multiple_trajectories"}
NoKwargs == [some |-> FALSE, keys |-> {}]
Kwargs(keys) == [some |-> TRUE, keys |-> keys]
KwargsGiven == {NoKwargs} \cup { Kwargs(keys) : keys \in SUBSET KwargNames }

\* if kwargs is None: kwargs = {}
OrEmpty(kwargs) == IF kwargs.some THEN kwargs.keys ELSE {}

\* the result of a call of predict: "returned" with the two predictions, or
\* the exception raised; simulateCalls and predictCalls are the calls made
\* on final_model with the keyword arguments they were given
PredictOut(kind, simulateCalls, predictCalls, x_te_pred, xdot_te_pred) ==
    [kind |-> kind, simulateCalls |-> simulateCalls, predictCalls |-> predictCalls,
     x_te_pred |-> x_te_pred, xdot_te_pred |-> xdot_te_pred]

\* what final_model does in one call of SymINDy.predict: whether simulate
\* and predict complete; the trajectory has one sample per time point
ModelOutcomes == [simulate_ok : BOOLEAN, predict_ok : BOOLEAN]

\* SymINDy.predict(x0, time, simulate_kwargs, predict_kwargs)
predict(inp, eng) ==
    LET simulate_kwargs == OrEmpty(inp.simulate_kwargs)
        predict_kwargs  == OrEmpty(inp.predict_kwargs)
        x_te_pred       == Arr(Iota(inp.time))
        simulateCall    == [x0 |-> inp.x0, t |-> inp.time, kwargs |-> simulate_kwargs]
        predictCall     == [x |-> x_te_pred, kwargs |-> {}]
    IN IF ~eng.simulate_ok
       THEN PredictOut("EngineError", <<simulateCall>>, <<>>, NoneArr, NoneArr)
       ELSE IF ~eng.predict_ok
       THEN PredictOut("EngineError", <<simulateCall>>, <<predictCall>>, NoneArr, NoneArr)
       ELSE PredictOut("returned", <<simulateCall>>, <<predictCall>>,
                       x_te_pred, Arr(Iota(inp.time)))

\* the arguments of a call of score: arrays of n samples, xdot given or None
ScoreInputs ==
    { [x |-> Arr(Iota(n)), x_pred |-> Arr(Iota(n)), xdot |-> DataArr(xd, n),
       xdot_pred |-> Arr(Iota(n)), metric_given |-> mg] :
        n \in 1..ApiMaxSamples, xd \in {"none", "array"}, mg \in BOOLEAN }

\* the arguments of a call of predict
PredictInputs ==
    { [x0 |-> 1, time |-> t, simulate_kwargs |-> sk, predict_kwargs |-> pk] :
        t \in 1..ApiMaxSamples, sk \in KwargsGiven, pk \in KwargsGiven }

InitApi ==
    /\ DriverIdle
    /\ \/ \E inp \in ScoreInputs :
            ev = [pc |-> "called", variant |-> "score", dims |-> 1, inp |-> inp,
                  eng |-> <<>>, out |-> PendingOut]
       \/ \E inp \in PredictInputs :
            ev = [pc |-> "called", variant |-> "predict", dims |-> 1, inp |-> inp,
                  eng |-> <<>>, out |-> PendingOut]

\* one call of SymINDy.score, with what the metric did on the pairs it was
\* called on
ScoreCall ==
    /\ ev.pc = "called"
    /\ ev.variant = "score"
    /\ \E m1 \in MetricOutcomes(ev.inp.x, ev.inp.x_pred),
          m2 \in MetricOutcomes(ev.inp.xdot, ev.inp.xdot_pred) :
         ev' = [ev EXCEPT !.pc = "returned",
                          !.eng = IF m1.raises # "" THEN <<m1>> ELSE <<m1, m2>>,
                          !.out = score(ev.inp, m1, m2)]
    /\ UNCHANGED driverVars

\* one call of SymINDy.predict
PredictCall ==
    /\ ev.pc = "called"
    /\ ev.variant = "predict"
    /\ \E eng \in ModelOutcomes :
         ev' = [ev EXCEPT !.pc = "returned",
                          !.eng = <<>>,
                          !.out = predict(ev.inp, eng)]
    /\ UNCHANGED driverVars

NextApi == ScoreCall \/ PredictCall

SpecApi == InitApi /\ [][NextApi]_vars

(***************************************************************************)
(* Specification SpecPrefer: two evaluated individuals met by tournament   *)
(* selection and by the hall of fame, in either variant.  Each individual  *)
(* gets the fitness the variant's evaluator computes from the score and    *)
(* the coefficients of its fitted model; equal individuals have the same   *)
(* fitted model.                                                           *)
(***************************************************************************)
PreferInputs(variant, nt) ==
    { [individuals |-> inds, engs |-> engs, ntrees |-> nt,
       max_depth |-> DefaultMaxDepth, sparsity |-> sp] :
        inds \in { p \in [1..2 -> [1..nt -> TreesUpTo(EvalMaxNodes)]] : TRUE },
        engs \in [1..2 -> [score : 0..MaxScore, coefs : CoefMatrices(1, nt)]],
        sp \in IF variant = "symindy" THEN EvalSparsities ELSE {"none"} }

InitPrefer ==
    /\ DriverIdle
    /\ \E variant \in {"symindy", "main_tmp"}, nt \in 1..EvalMaxNTrees :
         \E inp \in PreferInputs(variant, nt) :
           /\ inp.individuals[1] = inp.individuals[2] => inp.engs[1] = inp.engs[2]
           /\ ev = [pc |-> "called", variant |-> variant, dims |-> 1, inp |-> inp,
                    eng |-> <<>>, out |-> PendingOut]

\* the two individuals with the fitness values of their evaluations
Evaluated(variant, inp) ==
    [k \in 1..2 |->
       Individual(inp.individuals[k],
                  ValidFitness(IF variant = "symindy"
                               THEN PenalizedFitness(inp.engs[k].score,
                                                     inp.individuals[k],
                                                     inp.engs[k].coefs, inp.ntrees,
                                                     inp.max_depth, inp.sparsity)
                               ELSE ScoreFitness_tmp(inp.engs[k].score)))]

\* the winners of the tournaments (1, 2) and (2, 1), and the hall of fame
\* after an update from the two individuals in the one and the other order
Prefer ==
    /\ ev.pc = "called"
    /\ ev.variant \in {"symindy", "main_tmp"}
    /\ LET pop == Evaluated(ev.variant, ev.inp)
           rev == <<pop[2], pop[1]>>
       IN ev' = [ev EXCEPT
                   !.pc = "returned",
                   !.out = [kind |-> "preferred", population |-> pop,
                            tournament |->
                              IF ev.variant = "symindy"
                              THEN <<TournamentWinner(pop, 1, 2),
                                     TournamentWinner(pop, 2, 1)>>
                              ELSE <<TournamentWinner_tmp(pop, 1, 2),
                                     TournamentWinner_tmp(pop, 2, 1)>>,
                            hof |->
                              IF ev.variant = "symindy"
                              THEN <<HofUpdate(<<>>, pop), HofUpdate(<<>>, rev)>>
                              ELSE <<HofUpdate_tmp(<<>>, pop),
                                     HofUpdate_tmp(<<>>, rev)>>]]
    /\ UNCHANGED driverVars

NextPrefer == Prefer

SpecPrefer == InitPrefer /\ [][NextPrefer]_vars

(***************************************************************************)
(* Specification SpecPset: one call of configure_DEAP as far as the        *)
(* primitive set's input slots go.  A slot name is a base and an index:    *)
(* ARG3 is Name("ARG", 3), x0 is Name("x", 0), t and time have index 0.    *)
(* symindy.py gets its primitive set from library(nc, dimensions,          *)
(* is_time_dependent), which is not part of the sources read here: the     *)
(* set is taken to have dimensions + nc (+ 1) slots named ARG0, ARG1, ...  *)
(* as gp.PrimitiveSetTyped names them and as main_tmp.py builds it.        *)
(***************************************************************************)
Name(base, index) == [base |-> base, index |-> index]

\* gp.PrimitiveSetTyped("MAIN", intypes, float): one slot ARGk per input type
PrimitiveSetTyped(size_input) == [k \in 1..size_input |-> Name("ARG", k - 1)]

\* size_input = dimensions + nc, one more if is_time_dependent
size_input(nc, dimensions, is_time_dependent) ==
    dimensions + nc + (IF is_time_dependent THEN 1 ELSE 0)

\* lib = library(nc, dimensions, is_time_dependent=...); pset = lib()
library(nc, dimensions, is_time_dependent) ==
    PrimitiveSetTyped(size_input(nc, dimensions, is_time_dependent))

\* the dictionary _rename_args fills: old name -> new name, a later entry
\* for a key replacing an earlier one (no key is entered twice here)
argnames(nc, dimensions, is_time_dependent) ==
    LET states == { <<Name("ARG", dim), Name("x", dim)>> : dim \in 0..(dimensions - 1) }
        consts == { <<Name("ARG", i + dimensions), Name("x", i)>> : i \in 0..(nc - 1) }
        both   == states \cup consts
    IN IF is_time_dependent
       THEN both \cup { <<Name("ARG", Cardinality(both)), Name("t", 0)>> }
       ELSE both

\* pset.renameArguments(**kargs): every slot whose name is a key gets the
\* key's value, the other slots keep their names
renameArguments(arguments, kargs) ==
    [k \in 1..Len(arguments) |->
       IF \E e \in kargs : e[1] = arguments[k]
       THEN (CHOOSE e \in kargs : e[1] = arguments[k])[2]
       ELSE arguments[k]]

\* pset = _rename_args(lib(), nc, dimensions, self.is_time_dependent)
rename_args(nc, dimensions, is_time_dependent) ==
    renameArguments(library(nc, dimensions, is_time_dependent),
                    argnames(nc, dimensions, is_time_dependent))

\* main_tmp.py: the set built in place, and
\* if is_time_dependent: pset.renameArguments(ARG2="time")
rename_args_tmp(nc, dimensions, is_time_dependent) ==
    renameArguments(PrimitiveSetTyped(size_input(nc, dimensions, is_time_dependent)),
                    IF is_time_dependent
                    THEN { <<Name("ARG", TimeSlot_tmp), Name("time", 0)>> } ELSE {})

InitPset ==
    /\ DriverIdle
    /\ \E variant \in {"symindy", "main_tmp"}, dimensions \in 1..PsetMaxDims,
          nc \in 0..PsetMaxNc, is_time_dependent \in BOOLEAN :
         ev = [pc |-> "called", variant |-> variant, dims |-> dimensions,
               inp |-> [nc |-> nc, dimensions |-> dimensions,
                        is_time_dependent |-> is_time_dependent],
               eng |-> <<>>, out |-> [kind |-> "pending", arguments |-> <<>>]]

\* SymINDy.configure_DEAP: the slots of the primitive set it returns
ConfigureCall ==
    /\ ev.pc = "called"
    /\ ev.variant = "symindy"
    /\ ev' = [ev EXCEPT
                !.pc = "returned",
                !.out = [kind |-> "pset",
                         arguments |-> rename_args(ev.inp.nc, ev.inp.dimensions,
                                                   ev.inp.is_time_dependent)]]
    /\ UNCHANGED driverVars

\* SymINDy_class.configure_DEAP
ConfigureCall_tmp ==
    /\ ev.pc = "called"
    /\ ev.variant = "main_tmp"
    /\ ev' = [ev EXCEPT
                !.pc = "returned",
                !.out = [kind |-> "pset",
                         arguments |-> rename_args_tmp(ev.inp.nc, ev.inp.dimensions,
                                                       ev.inp.is_time_dependent)]]
    /\ UNCHANGED driverVars

NextPset == ConfigureCall \/ ConfigureCall_tmp

SpecPset == InitPset /\ [][NextPset]_vars

(***************************************************************************)
(* Specification SpecSeed: SymINDy objects built and fitted one after the  *)
(* other in one interpreter.  The generator of Python's random module is   *)
(* one per interpreter: random.seed sets its state, every draw advances    *)
(* it.  It is modelled by a linear congruential generator of full period   *)
(* 16: a draw is determined by the state, and the state by the seed and    *)
(* the number of draws since.  All objects have the same configuration     *)
(* (ngen = 0, one tree per individual) but for the seed, and are fitted on *)
(* the same data; the engine's score is one fixed function of the tree.    *)
(* ev holds the generator's state, the engine's function and the objects   *)
(* with the results of their fits.                                         *)
(***************************************************************************)
\* the state after one draw, which is also the value drawn
random(state) == (5 * state + 3) % 16

\* gp.genHalfAndHalf for the trees of the driver's library, on one draw: the
\* tree of height draw mod (max_ + 1)
ChainOf(height) == [i \in 1..(height + 1) |-> IF i <= height THEN 1 ELSE 0]
genHalfAndHalf_draw(max_, draw) == ChainOf(draw % (max_ + 1))

\* toolbox.population(n): n individuals of one tree each, drawn one after
\* the other from the generator in state `state`
RECURSIVE population_draw(_, _)
population_draw(n, state) ==
    IF n = 0 THEN <<>>
    ELSE <<Individual(<<genHalfAndHalf_draw(DefaultMaxDepth, random(state))>>,
                      InvalidFitness)>>
           \o population_draw(n - 1, random(state))

\* the generator's state after n draws
RECURSIVE after_draws(_, _)
after_draws(n, state) == IF n = 0 THEN state ELSE after_draws(n - 1, random(state))

NoObject == [made |-> FALSE, seed |-> 0, fits |-> <<>>]

InitSeed ==
    /\ DriverIdle
    /\ \E engine \in [0..DefaultMaxDepth -> 0..MaxScore], state \in 0..15 :
         ev = [pc |-> "interpreter", rng |-> state, engine |-> engine,
               objs |-> [o \in 1..SeedObjects |-> NoObject]]

\* SymINDy(seed=seed, ...): self.seed = seed; random.seed(seed)
Construct ==
    /\ ev.pc = "interpreter"
    /\ \E o \in 1..SeedObjects, seed \in 0..MaxSeed :
         /\ ~ev.objs[o].made
         /\ ev' = [ev EXCEPT !.rng = seed,
                             !.objs[o] = [made |-> TRUE, seed |-> seed, fits |-> <<>>]]
    /\ UNCHANGED driverVars

\* fit with ngen = 0: the first population is drawn, evaluated and archived;
\* fit does not seed the generator
Fit ==
    /\ ev.pc = "interpreter"
    /\ \E o \in 1..SeedObjects :
         /\ ev.objs[o].made
         /\ Len(ev.objs[o].fits) < MaxFits
         /\ LET pop  == population_draw(NIndividuals, ev.rng)
                done == [j \in 1..Len(pop) |->
                           SetFitness(pop[j],
                                      Rat(ev.engine[Height(pop[j].trees[1])], 1))]
            IN ev' = [ev EXCEPT
                        !.rng = after_draws(NIndividuals, ev.rng),
                        !.objs[o].fits = Append(@, [population |-> done,
                                                    hof |-> HofUpdate(<<>>, done)])]
    /\ UNCHANGED driverVars

NextSeed == Construct \/ Fit

SpecSeed == InitSeed /\ [][NextSeed]_vars

(***************************************************************************)
(* Properties.                                                             *)
(***************************************************************************)
\* the samples 1..k and k+1..n of an array of n samples
FirstSamples(k) == [i \in 1..k |-> i]
RestSamples(k, n) == [i \in 1..(n - k) |-> k + i]

\* C1: when fit completes, final_model is fitted on the entire training set:
\* every sample of x_train, and of x_dot_train and time_rec_obs when given,
\* is in the data handed to the engine's fit (no train/test split).
C1_FinalModelOnEntireTrainingSet ==
    pc = "done" =>
        /\ self.final_model.fitted
        /\ self.final_model.data = EngineCall(data.x, data.t, data.x_dot)

\* C2: an evalSymbReg call on an x_train of 2 or fewer samples ends in
\* ValueError, and the engine's fit and score are not invoked during the
\* call, whatever the individual, the split ratio and the sparsity mode.
C2_TooFewSamplesRaise ==
    (ev.pc = "returned" /\ Len(ev.inp.x_train.val) <= 2) =>
        /\ ev.out.kind = "ValueError"
        /\ ev.out.fitCalls = <<>>
        /\ ev.out.scoreCalls = <<>>

C2_Witness ==
    /\ ev.pc = "returned"
    /\ ev.variant = "symindy"
    /\ Len(ev.inp.x_train.val) = 2
    /\ ev.inp.tr_te_ratio.some
    /\ ev.inp.sparsity = "n_zero_nodes"
    /\ ev.out.kind = "ValueError"

\* C3: an offspring that had a tree handed to mate or mutate has an invalid
\* fitness during the rest of the variation and when it returns, is then
\* listed for evaluation, and stays invalid until its evaluation in the
\* same generation.
C3_TouchedInvalidUntilEvaluated ==
    /\ pc \in {"crossover", "mutate", "evaluate"} =>
         \A j \in touched : evals[j] = 0 => ~offspring[j].fitness.valid
    /\ pc = "evaluate" =>
         \A j \in touched : \E k \in 1..Len(invalid_ind) : invalid_ind[k] = j

C3_Witness ==
    /\ pc = "evaluate"
    /\ touched = {1, 2}
    /\ pos.i = 2
    /\ offspring[invalid_ind[1]].fitness.valid
    /\ ~offspring[invalid_ind[2]].fitness.valid

\* the individuals of the population and of the hall of fame
Kept == { population[j] : j \in 1..Len(population) }
          \cup { hof[j] : j \in 1..Len(hof) }

\* C4: after initialization and after every generation, every tree of every
\* individual of the population and of the hall of fame is no taller than
\* the configured max_depth.
C4_HeightWithinMaxDepth ==
    pc \in {"evaluate0", "loop", "returned", "store", "done"} =>
        \A ind \in Kept : \A h \in 1..Len(ind.trees) :
            Height(ind.trees[h]) <= cfg.max_depth

\* C5: the population holds n_individuals individuals at every point of the
\* run, selection and variation work on as many, and every individual has
\* ntrees trees.
C5_PopulationShape ==
    /\ Len(population) = cfg.n_individuals
    /\ selected # <<>> => Len(selected) = cfg.n_individuals
    /\ pc \in {"crossover", "mutate", "evaluate", "archive", "replace", "record"}
         => Len(offspring) = cfg.n_individuals
    /\ \A ind \in Kept \cup { offspring[j] : j \in 1..Len(offspring) } :
         Len(ind.trees) = cfg.ntrees

C5_Witness ==
    /\ pc = "record"
    /\ gen = 1
    /\ touched = {1, 2}
    /\ population = offspring
    /\ \E h \in 1..cfg.ntrees : population[1].trees[h] # population[2].trees[h]

\* the positions of the run at which the last archive step has seen every
\* evaluation made so far
Archived == pc \in {"record0", "loop", "clone", "crossover", "mutate",
                    "replace", "record", "returned", "store", "done"}

\* C6: after the archive step of every generation the fitness of the hall of
\* fame entry is at least every fitness an evaluation has returned so far,
\* and the fitness of the hall of fame entry never decreases.
C6_HallOfFameBest ==
    /\ [](Archived /\ best.some =>
            /\ Len(hof) = 1
            /\ hof[1].fitness.valid
            /\ RatLeq(best.val, hof[1].fitness.values))
    /\ [][hof # <<>> =>
            /\ hof' # <<>>
            /\ RatLeq(hof[1].fitness.values, hof'[1].fitness.values)]_vars

C6_Witness ==
    /\ pc = "replace"
    /\ gen = 1
    /\ \A j \in 1..Len(population) : RatEq(population[j].fitness.values, Rat(0, 1))
    /\ RatEq(hof[1].fitness.values, Rat(1, 1))

\* the subtrees with a non-zero coefficient in some output dimension, and
\* the sum of their node counts
Retained(individual, coefs) ==
    { i \in 1..Len(individual) : \E d \in 1..Len(coefs) : coefs[d][i] # 0 }

RECURSIVE NodesOf(_, _)
NodesOf(individual, subtrees) ==
    IF subtrees = {} THEN 0
    ELSE LET i == CHOOSE i \in subtrees : TRUE
         IN Len(individual[i]) + NodesOf(individual, subtrees \ {i})

RetainedNodes(individual, coefs) == NodesOf(individual, Retained(individual, coefs))

\* C7: in mode "n_zero_nodes" the fitness returned is the base score minus
\* (node count of the retained subtrees) / (2^(1+max_depth) * ntrees); it is
\* the base score when all coefficients are zero, and with the same base
\* score an individual with more retained nodes gets a strictly lower fitness.
C7_SparsityPenalty ==
    (/\ ev.pc = "returned"
     /\ ev.variant = "symindy"
     /\ ev.out.kind = "fitness"
     /\ ev.inp.sparsity = "n_zero_nodes") =>
        LET eng   == ev.eng[1]
            nt    == ev.inp.ntrees
            md    == ev.inp.max_depth
            nodes == RetainedNodes(ev.inp.individual, eng.coefs)
        IN /\ RatEq(ev.out.fitness,
                    RatSub(Rat(eng.score, 1), Rat(nodes, Pow2(1 + md) * nt)))
           /\ Retained(ev.inp.individual, eng.coefs) = {}
                => RatEq(ev.out.fitness, Rat(eng.score, 1))
           /\ \A individual \in [1..nt -> TreesUpTo(EvalMaxNodes)],
                 coefs \in CoefMatrices(ev.dims, nt) :
                 RetainedNodes(individual, coefs) > nodes
                   => RatLess(PenalizedFitness(eng.score, individual, coefs, nt,
                                               md, "n_zero_nodes"),
                              ev.out.fitness)

C7_Witness ==
    /\ ev.pc = "returned"
    /\ ev.variant = "symindy"
    /\ ev.out.kind = "fitness"
    /\ ev.inp.sparsity = "n_zero_nodes"
    /\ ev.inp.ntrees = 2
    /\ ev.dims = 2
    /\ Len(ev.inp.individual[1]) = 2
    /\ Retained(ev.inp.individual, ev.eng[1].coefs) = {1}
    /\ ev.eng[1].score = 1
    /\ RatEq(ev.out.fitness, Rat(3, 4))

\* C8: under a split ratio r on N samples, fit is handed exactly the first
\* int(r*N) samples and score exactly the remaining ones, in the original
\* order, for x_train and for x_dot_train and time_rec_obs when given; the
\* two parts concatenate back to the input; ratio 0.8 on 10 samples gives
\* the first 8 and the last 2.
C8_SplitPartitions ==
    (/\ ev.pc = "returned"
     /\ ev.variant = "symindy"
     /\ ev.inp.tr_te_ratio.some) =>
        LET n     == Len(ev.inp.x_train.val)
            r     == ev.inp.tr_te_ratio
            k     == (r.num * n) \div r.den
            train == Arr(FirstSamples(k))
            test  == Arr(RestSamples(k, n))
            Part(given, part) == IF given.kind = "none" THEN NoneArr ELSE part
        IN /\ \A c \in 1..Len(ev.out.fitCalls) :
                ev.out.fitCalls[c] =
                    EngineCall(train, Part(ev.inp.time_rec_obs, train),
                               Part(ev.inp.x_dot_train, train))
           /\ \A c \in 1..Len(ev.out.scoreCalls) :
                /\ ev.out.scoreCalls[c] =
                     EngineCall(test, Part(ev.inp.time_rec_obs, test),
                                Part(ev.inp.x_dot_train, test))
                /\ ev.out.fitCalls[c].x.val \o ev.out.scoreCalls[c].x.val
                     = ev.inp.x_train.val
           /\ (n = 10 /\ r = Ratio(8, 10)) =>
                \A c \in 1..Len(ev.out.scoreCalls) :
                    /\ ev.out.fitCalls[c].x.val = <<1, 2, 3, 4, 5, 6, 7, 8>>
                    /\ ev.out.scoreCalls[c].x.val = <<9, 10>>

C8_Witness ==
    /\ ev.pc = "returned"
    /\ ev.variant = "symindy"
    /\ ev.inp.tr_te_ratio = Ratio(8, 10)
    /\ Len(ev.inp.x_train.val) = 10
    /\ ev.inp.x_dot_train.kind = "array"
    /\ ev.inp.time_rec_obs.kind = "array"
    /\ ev.out.kind = "fitness"
    /\ Len(ev.out.fitCalls) = 1
    /\ Len(ev.out.scoreCalls) = 1

\* C9: in generation 0 every individual is evaluated once; in a later
\* generation an offspring that variation left invalid is evaluated once and
\* any other offspring not at all, keeping the fitness of the individual it
\* was copied from; no individual is evaluated twice before the next
\* selection; the logged nevals is the number of evaluations of the
\* generation.
C9_EvaluatedOnce ==
    /\ \A j \in 1..Len(evals) : evals[j] <= 1
    /\ pc \in {"archive0", "record0"} => \A j \in 1..Len(evals) : evals[j] = 1
    /\ pc \in {"archive", "replace"} =>
         \A j \in 1..Len(offspring) :
            IF j \in touched
            THEN evals[j] = 1 /\ offspring[j].fitness.valid
            ELSE evals[j] = 0 /\ offspring[j] = population[selected[j]]
    /\ (pc = "loop" /\ logbook # <<>>) =>
         logbook[Len(logbook)].nevals = SumSeq(evals)

C9_Witness ==
    /\ pc = "replace"
    /\ touched = {2}
    /\ evals = <<0, 1>>
    /\ offspring[1].fitness.valid
    /\ offspring[2].fitness.valid

\* the gen column of the logbook
LogGens == [k \in 1..Len(logbook) |-> logbook[k].gen]

\* C10: a run in which no evaluation raises reaches the return of
\* my_eaSimple, and at the return the logbook holds the ngen+1 records of
\* gen 0, 1, ..., ngen in this order.
C10_ReturnsAfterNgen ==
    /\ [](pc = "returned" => LogGens = [k \in 1..(cfg.ngen + 1) |-> k - 1])
    /\ <>(pc = "returned" \/ pc = "raised")

C10_Witness ==
    /\ pc = "returned"
    /\ cfg.ngen = 1
    /\ LogGens = <<0, 1>>
    /\ \E j \in 1..Len(population) : RatEq(population[j].fitness.values, Rat(1, 1))

\* the individual whose evaluation was under way when the run ended with an
\* exception: none when the exception came from the final model retrieval
Failing ==
    IF Len(logbook) = 0 THEN <<population[invalid_ind[pos.i]]>>
    ELSE IF Len(logbook) <= cfg.ngen THEN <<offspring[invalid_ind[pos.i]]>>
    ELSE <<>>

\* the evaluator can give a result of this kind for the individual on the
\* data of the run
CanGive(ind, kind) ==
    \E eng \in EngineOutcomes(DriverDims, cfg.ntrees) :
        evalSymbReg(evaluate(ind, cfg, data), eng).kind = kind

\* the individuals an evaluation pass has just gone through
JustEvaluated ==
    IF pc = "archive0" THEN population
    ELSE IF pc = "archive" THEN offspring ELSE <<>>

\* C11: when an evaluation raises (in generation 0, in a later generation or
\* in the final model retrieval) the run ends with that exception, the
\* failing individual is left without a fitness, no individual leaves an
\* evaluation pass with a fitness that no evaluation of it could return, and
\* the result attributes of the object are not set; they are set only by a
\* run that completes.
C11_FailurePropagates ==
    /\ pc = "raised" =>
         /\ exc \in {"ValueError", "TypeError", "EngineError"}
         /\ self = NoSelf
         /\ \A k \in 1..Len(Failing) :
              /\ ~Failing[k].fitness.valid
              /\ CanGive(Failing[k], exc)
    /\ \A j \in 1..Len(JustEvaluated) :
         /\ JustEvaluated[j].fitness.valid
         /\ CanGive(JustEvaluated[j], "fitness")
    /\ self.set => pc = "done"

C11_Witness ==
    /\ pc = "raised"
    /\ cfg.caller = "fit"
    /\ exc = "EngineError"
    /\ Len(logbook) = 1
    /\ pos.i = 2
    /\ offspring[invalid_ind[1]].fitness.valid
    /\ ~offspring[invalid_ind[2]].fitness.valid

\* C12: in score, a failure of the metric on the (x, x_pred) pair is
\* propagated; any failure of the metric on the (xdot, xdot_pred) pair, the
\* case of an absent xdot included, is caught: score returns the state score
\* with None as the derivative score.
C12_DerivativeFailureCaught ==
    (ev.pc = "returned" /\ ev.variant = "score") =>
        IF ev.eng[1].raises # ""
        THEN ev.out.kind = ev.eng[1].raises
        ELSE /\ ev.out.kind = "returned"
             /\ ev.out.x_score = Score(ev.eng[1].value)
             /\ ev.eng[2].raises # "" => ev.out.xdot_score = NoScore

\* C15: predict simulates from x0 with simulate_kwargs handed to the model's
\* simulate, then calls the model's predict on the simulated trajectory with
\* the caller's predict_kwargs handed to it.
C15_PredictKwargsPassed ==
    (ev.pc = "returned" /\ ev.variant = "predict") =>
        /\ ev.out.simulateCalls =
             << [x0 |-> ev.inp.x0, t |-> ev.inp.time,
                 kwargs |-> OrEmpty(ev.inp.simulate_kwargs)] >>
        /\ \A c \in 1..Len(ev.out.predictCalls) :
             /\ ev.out.predictCalls[c].x = Arr(Iota(ev.inp.time))
             /\ ev.out.predictCalls[c].kwargs = OrEmpty(ev.inp.predict_kwargs)

\* C13: with the default configuration (sparsity not given) the fitness that
\* fit's evaluate assigns is the penalized score: the score minus (node
\* count of the retained subtrees) / (2^(1+max_depth) * ntrees).
C13_DefaultFitnessPenalized ==
    (/\ ev.pc = "returned"
     /\ ev.variant = "symindy"
     /\ ev.out.kind = "fitness"
     /\ ev.inp.sparsity = DefaultSparsity
     /\ ev.inp.tr_te_ratio = Ratio(8, 10)) =>
        RatEq(ev.out.fitness,
              RatSub(Rat(ev.eng[1].score, 1),
                     Rat(RetainedNodes(ev.inp.individual, ev.eng[1].coefs),
                         Pow2(1 + ev.inp.max_depth) * ev.inp.ntrees)))

\* the complexity penalty of the k-th individual of a comparison: the node
\* count of its retained subtrees in mode "n_zero_nodes", none otherwise
PenaltyNodes(k) ==
    IF ev.inp.sparsity = "n_zero_nodes"
    THEN RetainedNodes(ev.inp.individuals[k], ev.inp.engs[k].coefs) ELSE 0

\* the first individual is the one kept by both tournaments and by the hall
\* of fame in both orders of arrival
FirstPreferred ==
    /\ ev.out.tournament = <<1, 1>>
    /\ ev.out.hof = << <<ev.out.population[1]>>, <<ev.out.population[1]>> >>

\* C14: in either variant, of two individuals with the same complexity
\* penalty the one with the larger score is preferred by tournament selection
\* and by the hall of fame, and of two individuals with the same score the
\* one with the smaller penalty is preferred.
C14_OneSignConvention ==
    (ev.pc = "returned" /\ ev.out.kind = "preferred") =>
        /\ (PenaltyNodes(1) = PenaltyNodes(2)
              /\ ev.inp.engs[1].score > ev.inp.engs[2].score) => FirstPreferred
        /\ (ev.inp.engs[1].score = ev.inp.engs[2].score
              /\ PenaltyNodes(1) < PenaltyNodes(2)) => FirstPreferred

C14_Witness ==
    /\ ev.pc = "returned"
    /\ ev.out.kind = "preferred"
    /\ ev.variant = "main_tmp"
    /\ ev.inp.engs[1].score = 1
    /\ ev.inp.engs[2].score = 0
    /\ RatEq(ev.out.population[1].fitness.values, Rat(0 - 1, 1))
    /\ FirstPreferred

\* C16: the driver of main_tmp.py ends no run with an exception: it returns
\* its results for every ngen, and fit stores them.
C16_TmpDriverCompletes == pc # "raised"

\* the two individuals of the pair a crossover turn is about
PairAt(i) == {i - 1, i}

\* C17: a variation step crosses only the disjoint adjacent pairs
\* (offspring[i-1], offspring[i]): a turn of the loop leaves every individual
\* outside its pair as it is, changes the trees of the pair at one index h at
\* most, leaves the fitness of a crossed pair invalid, and the next turn is
\* about the next two individuals, neither of which has been varied before.
C17_CrossoverFrame ==
    [][pc = "crossover" =>
         /\ pos.i % 2 = 0
         /\ pos.i <= Len(offspring)
         /\ PairAt(pos.i) \cap touched = {}
         /\ Len(offspring') = Len(offspring)
         /\ \A j \in (1..Len(offspring)) \ PairAt(pos.i) : offspring'[j] = offspring[j]
         /\ \E h \in 1..cfg.ntrees :
              \A j \in PairAt(pos.i), g \in (1..cfg.ntrees) \ {h} :
                  offspring'[j].trees[g] = offspring[j].trees[g]
         /\ offspring' # offspring =>
              /\ \A j \in PairAt(pos.i) : ~offspring'[j].fitness.valid
              /\ touched' = touched \cup PairAt(pos.i)
         /\ pc' = "crossover" => pos'.i = pos.i + 2
         /\ population' = population
         /\ hof' = hof]_vars

\* the second pair has been crossed at one index and the first pair has not
C17_Witness ==
    /\ pc = "mutate"
    /\ pos = [i |-> 1, h |-> 1]
    /\ Len(offspring) = PairIndividuals
    /\ touched = {3, 4}
    /\ offspring[1].fitness.valid
    /\ ~offspring[3].fitness.valid
    /\ ~offspring[4].fitness.valid
    /\ offspring[3].trees # population[selected[3]].trees

\* the order of the statements of my_eaSimple and of the end of fit: from
\* each position the positions the next step may lead to
DriverOrder ==
    { <<"evaluate0", "archive0">>, <<"archive0", "record0">>, <<"record0", "loop">>,
      <<"loop", "clone">>, <<"clone", "crossover">>, <<"clone", "mutate">>,
      <<"crossover", "mutate">>, <<"mutate", "evaluate">>, <<"mutate", "archive">>,
      <<"evaluate", "archive">>, <<"archive", "replace">>, <<"replace", "record">>,
      <<"record", "loop">>, <<"loop", "returned">>, <<"returned", "store">>,
      <<"store", "done">>, <<"evaluate0", "raised">>, <<"evaluate", "raised">>,
      <<"returned", "raised">> }

AllValid(individuals) ==
    \A j \in 1..Len(individuals) : individuals[j].fitness.valid

\* C18: the driver's steps come in the order select, vary, evaluate, archive,
\* replace, record; every individual that selection, a hall-of-fame update or
\* a statistics record reads has a valid fitness; and after the update of a
\* generation no offspring, varied or not, is better than the hall of fame's
\* entry.
C18_StepOrder ==
    /\ [](/\ pc \in {"archive0", "record0", "loop", "record"} => AllValid(population)
          /\ pc \in {"archive", "replace"} =>
               /\ AllValid(offspring)
               /\ Len(offspring) = cfg.n_individuals
          /\ pc = "replace" =>
               \A j \in 1..Len(offspring) :
                   FitnessLe(offspring[j].fitness, hof[1].fitness))
    /\ [][/\ pc' # pc => <<pc, pc'>> \in DriverOrder
          /\ pc = "loop" /\ pc' = "clone" => gen' = gen /\ gen <= cfg.ngen
          /\ pc = "record" => gen' = gen + 1 /\ population = offspring]_vars

\* a generation's record is due, and the offspring archived held a varied and
\* an unvaried individual
C18_Witness ==
    /\ pc = "record"
    /\ gen = 1
    /\ touched # {}
    /\ touched # 1..Len(offspring)
    /\ AllValid(population)
    /\ population = offspring
    /\ Len(hof) = 1

\* C19: the offspring are independent copies: a crossover turn changes only
\* the two offspring of its pair and a mutation turn only the offspring it
\* is about, neither changes the population or the hall of fame; the hall of
\* fame holds one entry at most, and it changes only in an update that puts
\* a better individual in.
C19_IndependentCopies ==
    /\ [](Len(hof) <= HofMaxSize)
    /\ [][/\ pc \in {"clone", "crossover", "mutate"} =>
               population' = population /\ hof' = hof
          /\ pc = "crossover" =>
               \A j \in (1..Len(offspring)) \ PairAt(pos.i) : offspring'[j] = offspring[j]
          /\ pc = "mutate" =>
               \A j \in (1..Len(offspring)) \ {pos.i} : offspring'[j] = offspring[j]
          /\ hof' # hof =>
               /\ pc \in {"archive0", "archive"}
               /\ Len(hof') = 1
               /\ hof # <<>> => FitnessGt(hof'[1].fitness, hof[1].fitness)]_vars

\* an evaluation has ended on its worker in this step
Completes == \E k \in 1..Len(ev.results) : ~ev.results[k].done /\ ev'.results[k].done

\* the next individual of invalid_ind gets its fitness in this step
Assigns == pc \in {"evaluate0", "evaluate"} /\ pos'.i = pos.i + 1

\* C20: with the evaluations of a generation running side by side and ending
\* in any order, the fitness an individual is given is the result of an
\* evaluation of its own trees, and the end of an evaluation changes neither
\* the population, the offspring, the hall of fame, the logbook, the training
\* arrays nor the configuration.
C20_ParallelEvaluation ==
    [][/\ Assigns =>
            LET j == invalid_ind[pos.i]
                new == IF pc = "evaluate0" THEN population'[j] ELSE offspring'[j]
            IN /\ new.trees = Pool[j].trees
               /\ new.fitness.valid
               /\ \E k \in 1..Len(ev.results) :
                    /\ ev.results[k].done
                    /\ ev.results[k].trees = Pool[j].trees
                    /\ ev.results[k].out.kind = "fitness"
                    /\ ev.results[k].out.fitness = new.fitness.values
               /\ \A i \in (1..Len(Pool)) \ {j} :
                    IF pc = "evaluate0" THEN population'[i] = population[i]
                    ELSE offspring'[i] = offspring[i]
               /\ UNCHANGED <<hof, logbook, data, cfg>>
       /\ Completes =>
            UNCHANGED <<population, offspring, hof, logbook, data, cfg, invalid_ind>>]_vars

\* the first individual holds its fitness while the result of the second,
\* another tree list with another fitness, is already in
C20_Witness ==
    /\ ev.pc = "map"
    /\ pc = "evaluate0"
    /\ pos.i = 2
    /\ population[1].fitness.valid
    /\ ev.results[2].done
    /\ ev.results[2].trees # population[1].trees
    /\ ev.results[2].out.kind = "fitness"
    /\ ev.results[2].out.fitness # population[1].fitness.values

\* C21: the regrouping of the coefficient matrix puts into group i the
\* coefficients of the feature of subtree i, one per output dimension, so
\* group i is all zero exactly when subtree i has no non-zero coefficient,
\* and the node count penalized is the one of the subtrees that have one.
C21_GroupsBySubtree ==
    (/\ ev.pc = "returned"
     /\ ev.variant = "symindy"
     /\ ev.out.kind \in {"fitness", "model"}
     /\ ev.inp.sparsity = "n_zero_nodes") =>
        LET coefs  == ev.eng[1].coefs
            nt     == ev.inp.ntrees
            groups == ind_coefs_list(coefs, nt)
        IN /\ ~npSplitRaises(Flatten(Transpose(coefs)), nt)
           /\ Len(groups) = nt
           /\ \A i \in 1..nt :
                /\ groups[i] = [d \in 1..ev.dims |-> coefs[d][i]]
                /\ AllZero(groups[i]) <=> (\A d \in 1..ev.dims : coefs[d][i] = 0)
           /\ n_nodes(ev.inp.individual, coefs, nt)
                = SumSeq([i \in 1..nt |->
                            IF \E d \in 1..ev.dims : coefs[d][i] # 0
                            THEN Len(ev.inp.individual[i]) ELSE 0])

\* two output dimensions, two subtrees: only the second subtree has a
\* non-zero coefficient, in the first dimension, and only it is penalized
C21_Witness ==
    /\ ev.pc = "returned"
    /\ ev.variant = "symindy"
    /\ ev.out.kind = "fitness"
    /\ ev.inp.sparsity = "n_zero_nodes"
    /\ ev.dims = 2
    /\ ev.inp.ntrees = 2
    /\ ev.eng[1].coefs = << <<0, 1>>, <<0, 0>> >>
    /\ Len(ev.inp.individual[1]) = 2
    /\ Len(ev.inp.individual[2]) = 1
    /\ ev.eng[1].score = 1
    /\ RatEq(ev.out.fitness, Rat(15, 16))
    /\ ev.inp.max_depth = 2

\* C22: under the split ratio of fit (0.8), a call whose input passed the
\* validation hands the engine's fit at least MinTimepoints samples and the
\* engine's score at least one sample.
C22_FitGetsEnoughSamples ==
    (/\ ev.pc = "returned"
     /\ ev.variant = "symindy"
     /\ ev.inp.tr_te_ratio = Ratio(8, 10)
     /\ validate_input(ev.inp.x_train)) =>
        /\ \A k \in 1..Len(ev.out.fitCalls) :
             Len(ev.out.fitCalls[k].x.val) >= MinTimepoints
        /\ \A k \in 1..Len(ev.out.scoreCalls) :
             Len(ev.out.scoreCalls[k].x.val) >= 1

\* C23: the primitive set configure_DEAP returns has dimensions + nc input
\* slots, one more when time-dependent, and no two slots have the same name.
C23_SlotsDistinct ==
    (ev.pc = "returned" /\ ev.out.kind = "pset") =>
        LET arguments == ev.out.arguments
        IN /\ Len(arguments) = ev.inp.dimensions + ev.inp.nc
                                 + (IF ev.inp.is_time_dependent THEN 1 ELSE 0)
           /\ \A j, k \in 1..Len(arguments) : arguments[j] = arguments[k] => j = k

\* C24: the result of fit is a function of the seed and the data: any two
\* fits of objects built with the same seed, of two objects or of one, give
\* the same first population and the same hall of fame.
C24_SeedDeterminesFit ==
    ev.pc = "interpreter" =>
        \A o1, o2 \in 1..SeedObjects :
            (ev.objs[o1].made /\ ev.objs[o2].made /\ ev.objs[o1].seed = ev.objs[o2].seed)
              => \A i \in 1..Len(ev.objs[o1].fits), j \in 1..Len(ev.objs[o2].fits) :
                     ev.objs[o1].fits[i] = ev.objs[o2].fits[j]

=============================================================================
